---- MODULE Spec2Model ----
(***************************************************************************)
(* passman: the encrypted storage engine (file format versions v0.2, v0.3  *)
(* and v0.4), its salted encryption codec and the accessor layer.          *)
(*                                                                         *)
(* Byte strings are sequences of integers 0..255.  AES-256-CBC with PKCS7  *)
(* padding is treated as an ideal cipher: a ciphertext is the record of    *)
(* the key, the IV and the padded payload it was made from; decrypting     *)
(* under the same key and IV returns the payload, decrypting under any     *)
(* other key (or decrypting bytes that no encryption produced) returns     *)
(* what the cipher happens to produce: a padding error, or padding-valid   *)
(* garbage whose length is fixed by the number of ciphertext blocks.  The  *)
(* key-derivation functions are injective symbolic hashes.                 *)
(***************************************************************************)
EXTENDS Integers, Sequences, FiniteSets, TLC

VARIABLES
    version,      \* FileContent.version: "v0.2" | "v0.3" | "v0.4"
    token,        \* FileContent.token (ciphertext)
    iv,           \* FileContent.iv
    salt,         \* FileContent.salt (password salt; unused by v0.2)
    last_update,  \* FileContent.last_update
    inner,        \* FileContent.inner: sequence of entries
    key,          \* Keyed.key: None or Some(derived key)
    unsaved,      \* Keyed.unsaved
    clock,        \* SystemTime::now()
    res,          \* outcome of the last call made on the store
    panicked,     \* the process aborted (panic!, expect, index out of bounds)
    ops,          \* number of calls made so far
    cx,           \* the codec exercised on its own (tests::check_single)
    app           \* the terminal application's App, once run has built it

vars ==
    <<version, token, iv, salt, last_update, inner, key, unsaved, clock, res,
      panicked, ops, cx, app>>

storeVars ==
    <<version, token, iv, salt, last_update, inner, key, unsaved, clock, res,
      panicked, ops>>

-----------------------------------------------------------------------------
(* Bounds *)

MaxValLen ==
    34

MaxOps ==
    3

MaxEntries ==
    2

MaxFields ==
    2

MaxTime ==
    1

\* the latest Unix time at which a one-time code is requested
MaxUnixTime ==
    64

-----------------------------------------------------------------------------
(* Option and byte helpers *)

None ==
    <<>>

Some(v) ==
    <<v>>

Unwrap(o) ==
    o[1]

RECURSIVE BitAnd(_, _)
BitAnd(a, b) ==
    IF a = 0 \/ b = 0
    THEN 0
    ELSE (a % 2) * (b % 2) + 2 * BitAnd(a \div 2, b \div 2)

RECURSIVE BitOr(_, _)
BitOr(a, b) ==
    IF a = 0 THEN b
    ELSE IF b = 0 THEN a
    ELSE (IF (a % 2) + (b % 2) > 0 THEN 1 ELSE 0) + 2 * BitOr(a \div 2, b \div 2)

SatSub(a, b) ==
    IF a >= b THEN a - b ELSE 0

Max(a, b) ==
    IF a >= b THEN a ELSE b

Repeat(b, n) ==
    [i \in 1..n |-> b]

\* String::from_utf8: of the bytes used here, those below 0x80 are ASCII and
\* 0xE2 0x98 0xBA is the only multi-byte sequence that is well formed.
RECURSIVE IsUtf8(_)
IsUtf8(bs) ==
    IF bs = <<>> THEN TRUE
    ELSE IF bs[1] < 128 THEN IsUtf8(Tail(bs))
    ELSE IF Len(bs) >= 3 /\ bs[1] = 226 /\ bs[2] = 152 /\ bs[3] = 186
         THEN IsUtf8(SubSeq(bs, 4, Len(bs)))
    ELSE FALSE

-----------------------------------------------------------------------------
(* Cipher / KDF adapter *)

SALT_MIN_LENGTH ==
    17

SALT_MAX_LENGTH ==
    32

BLOCK ==
    16

\* "encryption token " followed by U+263A in UTF-8
ENCRYPT_TOKEN ==
    <<101, 110, 99, 114, 121, 112, 116, 105, 111, 110, 32,
      116, 111, 107, 101, 110, 32, 226, 152, 186>>

\* v0.2: SHA-256 of the password
hash_key_v02(pwd) ==
    <<"sha256", pwd>>

\* v0.3, v0.4: Argon2id of the password under the file's salt
hash_key(s, pwd) ==
    <<"argon2id", s, pwd>>

\* Cbc<Aes256, Pkcs7>::encrypt_vec: PKCS7 always adds 1..16 bytes
CbcEncrypt(full, i, k) ==
    [key |-> k, iv |-> i, data |-> full, blocks |-> Len(full) \div BLOCK + 1]

\* What decrypt_vec can return for a ciphertext of b blocks that was not made
\* with the key and IV in use: Err, or garbage of 16(b-1) .. 16b-1 bytes.
GarbageLens(b) ==
    {BLOCK * (b - 1), BLOCK * b - 1}

GarbageFirst ==
    {0, 255}

GarbageFill ==
    {65, 255}

Garbage(b) ==
    {[t |-> "Err"]} \cup
    {[t |-> "Ok", v |-> (IF n = 0 THEN <<>> ELSE <<f>> \o Repeat(g, n - 1))] :
        n \in GarbageLens(b), f \in GarbageFirst, g \in GarbageFill}

\* the answers the cipher can give when ct is decrypted under (k, i)
GarbageFor(ct, i, k) ==
    IF ct.key = k /\ ct.iv = i THEN {[t |-> "Err"]} ELSE Garbage(ct.blocks)

\* Cbc<Aes256, Pkcs7>::decrypt_vec; g is the cipher's answer for a ciphertext
\* that does not belong to (k, i)
CbcDecrypt(ct, i, k, g) ==
    IF ct.key = k /\ ct.iv = i
    THEN [t |-> "Ok", v |-> ct.data]
    ELSE g

-----------------------------------------------------------------------------
(* Salted encryption codec (v0.3, shared by v0.4) *)

Panic ==
    [t |-> "Panic"]

\* variant: the salt's first byte is not masked before the length is or-ed in
encrypt_with_salt_nomask(val, s, i, k) ==
    IF ~(SALT_MIN_LENGTH <= Len(s) /\ Len(s) <= SALT_MAX_LENGTH)
    THEN Panic
    ELSE LET len_byte == Len(s) - SALT_MIN_LENGTH
             s0 == BitOr(s[1], len_byte)
             full == <<s0>> \o Tail(s) \o val
         IN  [t |-> "Ok", v |-> CbcEncrypt(full, i, k)]

encrypt_with_salt(val, s, i, k) ==
    IF ~(SALT_MIN_LENGTH <= Len(s) /\ Len(s) <= SALT_MAX_LENGTH)
    THEN Panic
    ELSE LET len_byte == Len(s) - SALT_MIN_LENGTH
             s0 == BitOr(BitAnd(s[1], 240), len_byte)
             full == <<s0>> \o Tail(s) \o val
         IN  [t |-> "Ok", v |-> CbcEncrypt(full, i, k)]

\* variant: the minimum salt length is not raised to SALT_MIN_LENGTH
min_salt_len_nofloor(val) ==
    SatSub(SALT_MAX_LENGTH, Len(val))

min_salt_len(val) ==
    Max(SatSub(SALT_MAX_LENGTH, Len(val)), SALT_MIN_LENGTH)

\* thread_rng(): 32 random bytes and a length in min_salt_len..=32
RngFirst ==
    {110, 255}

\* the remaining bytes of the 32 the generator returned
RngRest ==
    Repeat(120, SALT_MAX_LENGTH - 1)

RngDraws(val) ==
    {[first |-> f, salt_len |-> l] :
        f \in RngFirst, l \in min_salt_len(val)..SALT_MAX_LENGTH}

encrypt_salt(rng) ==
    SubSeq(<<rng.first>> \o RngRest, 1, rng.salt_len)

encrypt(val, i, k, rng) ==
    encrypt_with_salt(val, encrypt_salt(rng), i, k)

decrypt(val, i, k, g) ==
    LET d == CbcDecrypt(val, i, k, g)
    IN  IF d.t = "Err" THEN [t |-> "None"]
        ELSE IF Len(d.v) = 0 THEN Panic
        ELSE LET salt_len == BitAnd(d.v[1], 15) + SALT_MIN_LENGTH
             IN  IF ~(SALT_MIN_LENGTH <= salt_len /\ salt_len <= SALT_MAX_LENGTH)
                 THEN Panic
                 ELSE IF salt_len > Len(d.v) THEN Panic
                 ELSE [t |-> "Some", v |-> SubSeq(d.v, salt_len + 1, Len(d.v))]

decrypt_string(val, i, k, g) ==
    LET d == decrypt(val, i, k, g)
    IN  IF d.t = "Panic" THEN Panic
        ELSE IF d.t = "None" THEN [t |-> "Err", e |-> "BadCrypt"]
        ELSE IF ~IsUtf8(d.v) THEN [t |-> "Err", e |-> "BadUtf8"]
        ELSE [t |-> "Ok", v |-> d.v]

\* v0.2: no salting
encrypt_v02(val, i, k) ==
    CbcEncrypt(val, i, k)

decrypt_v02(val, i, k, g) ==
    LET d == CbcDecrypt(val, i, k, g)
    IN  IF d.t = "Err" THEN [t |-> "None"] ELSE [t |-> "Some", v |-> d.v]

decrypt_string_v02(val, i, k, g) ==
    LET d == decrypt_v02(val, i, k, g)
    IN  IF d.t = "None" THEN [t |-> "Err", e |-> "BadCrypt"]
        ELSE IF ~IsUtf8(d.v) THEN [t |-> "Err", e |-> "BadUtf8"]
        ELSE [t |-> "Ok", v |-> d.v]

-----------------------------------------------------------------------------
(* The codec on its own: tests::check_single, with inputs drawn from        *)
(* bounded sets, and decrypt applied to bytes read from a file.             *)

ValFill ==
    {97, 255}

CodecVals ==
    {Repeat(b, n) : b \in ValFill, n \in 0..MaxValLen}

SaltFirst ==
    {0, 110, 255}

CodecSalts ==
    {<<f>> \o SubSeq(RngRest, 1, l - 1) :
        f \in SaltFirst, l \in SALT_MIN_LENGTH..SALT_MAX_LENGTH}

CodecIv ==
    "iv0"

CodecKey ==
    hash_key("salt0", "a temporary key for testing")

CodecOtherKey ==
    hash_key("salt0", "another key")

\* Ciphertext bytes that no encryption under a key of this program produced
\* (a corrupted or hand-written file): one, two or three blocks.
ForeignBlocks ==
    {1, 2, 3}

Foreign(b) ==
    [key |-> <<"foreign">>, iv |-> CodecIv, data |-> <<>>, blocks |-> b]

\* no terminal application is running
NoApp ==
    [exited |-> TRUE]

CodecIdle ==
    [pc |-> "idle", via |-> "none", val |-> <<>>, salt |-> <<>>, k |-> <<>>,
     ct |-> [t |-> "none"], out |-> [t |-> "none"]]

CodecEncryptWithSalt ==
    /\ cx.pc = "idle"
    /\ \E val \in CodecVals, s \in CodecSalts :
          cx' = [cx EXCEPT !.pc = "encrypted", !.via = "with_salt", !.val = val,
                           !.salt = s, !.k = CodecKey,
                           !.ct = encrypt_with_salt(val, s, CodecIv, CodecKey)]
    /\ UNCHANGED <<storeVars, app>>

CodecEncrypt ==
    /\ cx.pc = "idle"
    /\ \E val \in CodecVals :
          \E rng \in RngDraws(val) :
             cx' = [cx EXCEPT !.pc = "encrypted", !.via = "rng", !.val = val,
                              !.salt = encrypt_salt(rng), !.k = CodecKey,
                              !.ct = encrypt(val, CodecIv, CodecKey, rng)]
    /\ UNCHANGED <<storeVars, app>>

\* decrypt with the key the value was encrypted under
CodecDecrypt ==
    /\ cx.pc = "encrypted"
    /\ cx.ct.t = "Ok"
    /\ \E g \in Garbage(cx.ct.v.blocks) :
          cx' = [cx EXCEPT !.pc = "decrypted",
                           !.out = decrypt(cx.ct.v, CodecIv, cx.k, g)]
    /\ UNCHANGED <<storeVars, app>>

\* decrypt with another key
CodecDecryptWrongKey ==
    /\ cx.pc = "encrypted"
    /\ cx.ct.t = "Ok"
    /\ \E g \in Garbage(cx.ct.v.blocks) :
          cx' = [cx EXCEPT !.pc = "decrypted", !.k = CodecOtherKey,
                           !.out = decrypt(cx.ct.v, CodecIv, CodecOtherKey, g)]
    /\ UNCHANGED <<storeVars, app>>

\* decrypt applied to ciphertext bytes taken from a file
CodecDecryptForeign ==
    /\ cx.pc = "idle"
    /\ \E b \in ForeignBlocks, k \in {CodecKey, CodecOtherKey} :
          \E g \in Garbage(b) :
             cx' = [cx EXCEPT !.pc = "decrypted", !.via = "foreign", !.k = k,
                              !.ct = [t |-> "Ok", v |-> Foreign(b)],
                              !.out = decrypt(Foreign(b), CodecIv, k, g)]
    /\ UNCHANGED <<storeVars, app>>

CodecReset ==
    /\ cx.pc \in {"encrypted", "decrypted"}
    /\ cx' = CodecIdle
    /\ UNCHANGED <<storeVars, app>>

CodecInit ==
    /\ cx = CodecIdle
    /\ app = NoApp
    /\ version = "v0.4"
    /\ token = Foreign(1)
    /\ iv = CodecIv
    /\ salt = "salt0"
    /\ last_update = 0
    /\ inner = <<>>
    /\ key = None
    /\ unsaved = FALSE
    /\ clock = 0
    /\ res = [op |-> "none"]
    /\ panicked = FALSE
    /\ ops = 0

CodecNext ==
    \/ CodecEncryptWithSalt
    \/ CodecEncrypt
    \/ CodecDecrypt
    \/ CodecDecryptWrongKey
    \/ CodecDecryptForeign
    \/ CodecReset

SpecCodec ==
    CodecInit /\ [][CodecNext]_vars

-----------------------------------------------------------------------------
(* Versioned format models and the keyed container *)

Versions ==
    {"v0.2", "v0.3", "v0.4"}

Passwords ==
    {"pw1", "wrong"}

\* the password the loaded file was created with
FilePwd ==
    "pw1"

EntryNames ==
    {"Bank", "Mail"}

FieldNames ==
    {"pin"}

TagLists ==
    {<<>>, <<"work">>}

\* "" and "s"
Values ==
    {<<>>, <<115>>}

Issuers ==
    {"acme"}

\* a base32 seed ("A") and a string that is not one ("")
TotpSecrets ==
    {<<65>>, <<>>}

Basic(s) ==
    [kind |-> "Basic", s |-> s]

Protected(bs) ==
    [kind |-> "Protected", bs |-> bs]

Totp(issuer, secret) ==
    [kind |-> "Totp", issuer |-> issuer, secret |-> secret]

Manual(value, protected) ==
    [kind |-> "Manual", value |-> value, protected |-> protected]

PlainTotp(issuer, secret) ==
    [kind |-> "Totp", issuer |-> issuer, secret |-> secret]

\* the PlaintextValues a format version's builder accepts (make_totp fails
\* with UnsupportedFeature::Totp before v0.4)
PlaintextValues(ver) ==
    {Manual(v, p) : v \in Values, p \in BOOLEAN} \cup
    (IF ver = "v0.4"
     THEN {PlainTotp(i, s) : i \in Issuers, s \in TotpSecrets}
     ELSE {})

\* the bytes of a PlaintextValue that get encrypted
PlainBytes(pv) ==
    IF pv.kind = "Manual" THEN pv.value ELSE pv.secret

\* every PlaintextValue a caller can hand to set_value
AllPlaintextValues ==
    {Manual(v, p) : v \in Values, p \in BOOLEAN} \cup
    {PlainTotp(i, s) : i \in Issuers, s \in TotpSecrets}

\* EntryMut::field_builder
field_builder ==
    [name |-> None, value |-> None]

\* variant: every format accepts make_totp
make_totp_result_always(ver) ==
    "Ok"

\* FieldBuilder::make_totp
make_totp_result(ver) ==
    IF ver = "v0.4" THEN "Ok" ELSE "UnsupportedFeature::Totp"

\* FieldBuilder::set_name
builder_set_name(b, name) ==
    [b EXCEPT !.name = Some(name)]

\* FieldBuilder::set_value: before v0.4 the Totp arm panics
builder_set_value(ver, b, pv) ==
    IF ver = "v0.4" \/ pv.kind = "Manual"
    THEN [b EXCEPT !.value = Some(pv)]
    ELSE Panic

\* the builders a caller can hold: field_builder() followed by any of
\* set_name and set_value that returned
Builders(ver) ==
    {field_builder} \cup
    {builder_set_name(field_builder, n) : n \in FieldNames} \cup
    {builder_set_value(ver, field_builder, pv) : pv \in PlaintextValues(ver)} \cup
    {builder_set_value(ver, builder_set_name(field_builder, n), pv) :
        n \in FieldNames, pv \in PlaintextValues(ver)}

\* hash_key of the loaded version
HashKey(ver, s, pwd) ==
    IF ver = "v0.2" THEN hash_key_v02(pwd) ELSE hash_key(s, pwd)

\* encrypt of the loaded version
Encrypt(ver, val, i, k, rng) ==
    IF ver = "v0.2"
    THEN [t |-> "Ok", v |-> encrypt_v02(val, i, k)]
    ELSE encrypt(val, i, k, rng)

\* decrypt of the loaded version
Decrypt(ver, val, i, k, g) ==
    IF ver = "v0.2" THEN decrypt_v02(val, i, k, g) ELSE decrypt(val, i, k, g)

\* decrypt_string of the loaded version
DecryptString(ver, val, i, k, g) ==
    IF ver = "v0.2"
    THEN decrypt_string_v02(val, i, k, g)
    ELSE decrypt_string(val, i, k, g)

\* SystemTime::now() as read by the calls
Now ==
    {clock}

\* variant: the derived key is stored before the token is compared
set_key_result_early(ver, tok, i, s, cur, pwd, g) ==
    LET hashed == HashKey(ver, s, pwd)
        decrypted_token == Decrypt(ver, tok, i, hashed, g)
    IN  IF decrypted_token.t = "Panic" THEN [r |-> "Panic", key |-> cur]
        ELSE IF decrypted_token.t = "Some" /\ decrypted_token.v = ENCRYPT_TOKEN
             THEN [r |-> "Ok", key |-> Some(hashed)]
        ELSE [r |-> "BadCrypt", key |-> Some(hashed)]

\* Keyed<FileContent>::set_key: the outcome and self.key afterwards
set_key_result(ver, tok, i, s, cur, pwd, g) ==
    LET hashed == HashKey(ver, s, pwd)
        decrypted_token == Decrypt(ver, tok, i, hashed, g)
    IN  IF decrypted_token.t = "Panic" THEN [r |-> "Panic", key |-> cur]
        ELSE IF decrypted_token.t = "Some" /\ decrypted_token.v = ENCRYPT_TOKEN
             THEN [r |-> "Ok", key |-> Some(hashed)]
        ELSE [r |-> "BadCrypt", key |-> cur]

\* EntryMut::set_field, v0.4: the Value built from the builder's value
set_field_value_v04(pv, k, i, rng) ==
    IF pv.kind = "Manual" /\ ~pv.protected
    THEN [t |-> "Ok", v |-> Basic(pv.value)]
    ELSE IF pv.kind = "Manual"
    THEN IF k = None
         THEN [t |-> "Err", e |-> "ContentsNotUnlocked", kind |-> "Totp"]
         ELSE LET c == encrypt(pv.value, i, Unwrap(k), rng)
              IN  IF c.t = "Panic" THEN Panic
                  ELSE [t |-> "Ok", v |-> Protected(c.v)]
    ELSE IF k = None
         THEN [t |-> "Err", e |-> "ContentsNotUnlocked", kind |-> "Totp"]
         ELSE LET c == encrypt(pv.secret, i, Unwrap(k), rng)
              IN  IF c.t = "Panic" THEN Panic
                  ELSE [t |-> "Ok", v |-> Totp(pv.issuer, c.v)]

\* EntryMut::set_field, v0.2 and v0.3: the builder holds value and is_protected
set_field_value_v03(ver, pv, k, i, rng) ==
    LET value == pv.value
        is_protected == pv.protected
    IN  IF is_protected
        THEN [t |-> "Ok", v |-> Basic(value)]
        ELSE IF k # None
        THEN LET c == Encrypt(ver, value, i, Unwrap(k), rng)
             IN  IF c.t = "Panic" THEN Panic
                 ELSE [t |-> "Ok", v |-> Protected(c.v)]
        ELSE [t |-> "Err", e |-> "ContentsNotUnlocked", kind |-> "Protected"]

set_field_value(ver, pv, k, i, rng) ==
    IF ver = "v0.4"
    THEN set_field_value_v04(pv, k, i, rng)
    ELSE set_field_value_v03(ver, pv, k, i, rng)

\* variant: the field is inserted at idx instead of overwriting it
put_field_insert(fields, idx, field) ==
    SubSeq(fields, 1, idx) \o <<field>> \o SubSeq(fields, idx + 1, Len(fields))

\* EntryMut::set_field: push when idx is the length, else overwrite
put_field(fields, idx, field) ==
    IF idx = Len(fields)
    THEN Append(fields, field)
    ELSE [fields EXCEPT ![idx + 1] = field]

\* Vec::remove
Remove(seq, idx) ==
    SubSeq(seq, 1, idx) \o SubSeq(seq, idx + 2, Len(seq))

\* variant: the Protected arm decrypts without stripping the salt
swap_encryption_value_nostrip(ver, value, k, i, rng, g) ==
    IF k = None THEN [t |-> "Err", e |-> "ContentsNotUnlocked"]
    ELSE IF value.kind = "Basic"
    THEN LET c == Encrypt(ver, value.s, i, Unwrap(k), rng)
         IN  IF c.t = "Panic" THEN Panic
             ELSE [t |-> "Ok", v |-> Protected(c.v)]
    ELSE IF value.kind = "Protected"
    THEN LET d == decrypt_string_v02(value.bs, i, Unwrap(k), g)
         IN  IF d.t = "Ok" THEN [t |-> "Ok", v |-> Basic(d.v)]
             ELSE [t |-> "Err", e |-> d.e]
    ELSE [t |-> "Err", e |-> "IsTotp"]

\* variant: the kind of the field is examined before the key
swap_encryption_value_kind_first(ver, value, k, i, rng, g) ==
    IF value.kind = "Totp" THEN [t |-> "Err", e |-> "IsTotp"]
    ELSE IF k = None THEN [t |-> "Err", e |-> "ContentsNotUnlocked"]
    ELSE IF value.kind = "Basic"
    THEN LET c == Encrypt(ver, value.s, i, Unwrap(k), rng)
         IN  IF c.t = "Panic" THEN Panic
             ELSE [t |-> "Ok", v |-> Protected(c.v)]
    ELSE LET d == DecryptString(ver, value.bs, i, Unwrap(k), g)
         IN  IF d.t = "Ok" THEN [t |-> "Ok", v |-> Basic(d.v)]
             ELSE IF d.t = "Panic" THEN Panic
             ELSE [t |-> "Err", e |-> d.e]

\* FieldMut::swap_encryption: the new Value
swap_encryption_value(ver, value, k, i, rng, g) ==
    IF k = None THEN [t |-> "Err", e |-> "ContentsNotUnlocked"]
    ELSE IF value.kind = "Basic"
    THEN LET c == Encrypt(ver, value.s, i, Unwrap(k), rng)
         IN  IF c.t = "Panic" THEN Panic
             ELSE [t |-> "Ok", v |-> Protected(c.v)]
    ELSE IF value.kind = "Protected"
    THEN LET d == DecryptString(ver, value.bs, i, Unwrap(k), g)
         IN  IF d.t = "Ok" THEN [t |-> "Ok", v |-> Basic(d.v)]
             ELSE IF d.t = "Panic" THEN Panic
             ELSE [t |-> "Err", e |-> d.e]
    ELSE [t |-> "Err", e |-> "IsTotp"]

\* GA_AUTH.get_code: the code of a base32 secret for a time slice
get_code(secret, time_slice) ==
    IF secret = <<65>>
    THEN [t |-> "Ok", v |-> <<"code", secret, time_slice>>]
    ELSE [t |-> "Err"]

\* variant: the remaining seconds are reduced modulo 30
value_of_remaining_mod(ver, value, k, i, g, unix_time) ==
    IF value.kind = "Basic" THEN [t |-> "Ok", v |-> value.s]
    ELSE IF k = None THEN [t |-> "Err", e |-> "ContentsNotUnlocked"]
    ELSE IF value.kind = "Protected"
    THEN DecryptString(ver, value.bs, i, Unwrap(k), g)
    ELSE LET secret_plaintext == decrypt_string(value.secret, i, Unwrap(k), g)
         IN  IF secret_plaintext.t # "Ok" THEN secret_plaintext
             ELSE LET time_slice == unix_time \div 30
                      code == get_code(secret_plaintext.v, time_slice)
                      secs_remaining == (30 - (unix_time % 30)) % 30
                  IN  IF code.t = "Err"
                      THEN [t |-> "Err", e |-> "BadTotpSecret"]
                      ELSE [t |-> "Ok", v |-> <<code.v, secs_remaining>>]

\* variant: the Totp arm does not look at the key
value_of_totp_unchecked(ver, value, k, i, g, unix_time) ==
    IF value.kind = "Basic" THEN [t |-> "Ok", v |-> value.s]
    ELSE IF value.kind = "Totp" THEN [t |-> "Err", e |-> "BadTotpSecret"]
    ELSE IF k = None THEN [t |-> "Err", e |-> "ContentsNotUnlocked"]
    ELSE DecryptString(ver, value.bs, i, Unwrap(k), g)

\* FieldRef::value
value_of(ver, value, k, i, g, unix_time) ==
    IF value.kind = "Basic" THEN [t |-> "Ok", v |-> value.s]
    ELSE IF k = None THEN [t |-> "Err", e |-> "ContentsNotUnlocked"]
    ELSE IF value.kind = "Protected"
    THEN DecryptString(ver, value.bs, i, Unwrap(k), g)
    ELSE LET secret_plaintext == decrypt_string(value.secret, i, Unwrap(k), g)
         IN  IF secret_plaintext.t # "Ok" THEN secret_plaintext
             ELSE LET time_slice == unix_time \div 30
                      code == get_code(secret_plaintext.v, time_slice)
                      secs_remaining == 30 - (unix_time % 30)
                  IN  IF code.t = "Err"
                      THEN [t |-> "Err", e |-> "BadTotpSecret"]
                      ELSE [t |-> "Ok", v |-> <<code.v, secs_remaining>>]

\* FieldRef::plaintext_value
plaintext_value_of(ver, value, k, i, g) ==
    IF value.kind = "Basic" THEN [t |-> "Ok", v |-> Manual(value.s, FALSE)]
    ELSE IF k = None THEN [t |-> "Err", e |-> "ContentsNotUnlocked"]
    ELSE IF value.kind = "Protected"
    THEN LET d == DecryptString(ver, value.bs, i, Unwrap(k), g)
         IN  IF d.t = "Ok" THEN [t |-> "Ok", v |-> Manual(d.v, TRUE)] ELSE d
    ELSE LET d == decrypt_string(value.secret, i, Unwrap(k), g)
         IN  IF d.t = "Ok" THEN [t |-> "Ok", v |-> PlainTotp(value.issuer, d.v)]
             ELSE d

-----------------------------------------------------------------------------
(* The loaded store: state after parse, and one action per call *)

FileIv ==
    "iv1"

FileSalt ==
    "salt1"

FileKey(ver) ==
    HashKey(ver, FileSalt, FilePwd)

\* the salt drawn when the file's token was written
TokenRng ==
    [first |-> 110, salt_len |-> 17]

FieldRng ==
    [first |-> 110, salt_len |-> 31]

\* what the file's author encrypted under the file's key
FileEncrypt(ver, val, rng) ==
    Encrypt(ver, val, FileIv, FileKey(ver), rng).v

\* ciphertext bytes in the file that no encryption produced (one block)
Corrupt ==
    [key |-> <<"foreign">>, iv |-> FileIv, data |-> <<>>, blocks |-> 1]

FileTokens(ver) ==
    {FileEncrypt(ver, ENCRYPT_TOKEN, TokenRng), Corrupt}

FileEntry(fields) ==
    [name |-> "Bank", tags |-> <<>>, fields |-> fields,
     first_added |-> 0, last_update |-> 0]

\* the entries of the file that is loaded
FileEntries(ver) ==
    {<<>>,
     <<FileEntry(<<[name |-> "user", value |-> Basic(<<115>>)],
                   [name |-> "pin",
                    value |-> Protected(FileEncrypt(ver, <<115>>, FieldRng))]>>)>>,
     <<FileEntry(<<[name |-> "pin", value |-> Protected(Corrupt)]>>)>>}
    \cup
    (IF ver = "v0.4"
     THEN {<<FileEntry(<<[name |-> "otp",
                          value |-> Totp("acme",
                                         FileEncrypt(ver, <<65>>, FieldRng))]>>)>>}
     ELSE {})

NoRes ==
    [op |-> "none", r |-> "none", e |-> 0, f |-> 0, arg |-> <<>>, out |-> <<>>]

R(op, r, e, f, arg, out) ==
    [op |-> op, r |-> r, e |-> e, f |-> f, arg |-> arg, out |-> out]

\* Keyed::new: no key, nothing unsaved
Keyed_new ==
    [key |-> None, unsaved |-> FALSE]

\* parse: Keyed::new(content) for the content read from the file
Init ==
    /\ version \in Versions
    /\ token \in FileTokens(version)
    /\ iv = FileIv
    /\ salt = FileSalt
    /\ last_update = 0
    /\ inner \in FileEntries(version)
    /\ (token = Corrupt => inner = <<>>)
    /\ key = Keyed_new.key
    /\ unsaved = Keyed_new.unsaved
    /\ clock = 0
    /\ res = NoRes
    /\ panicked = FALSE
    /\ ops = 0
    /\ cx = CodecIdle
    /\ app = NoApp

Running ==
    ~panicked /\ ops < MaxOps

content ==
    <<version, token, iv, salt, last_update, inner>>

\* the call aborted the process
Abort(op, e, f, arg) ==
    /\ panicked' = TRUE
    /\ res' = R(op, "Panic", e, f, arg, <<>>)
    /\ ops' = ops + 1
    /\ UNCHANGED <<content, key, unsaved, clock, cx, app>>

\* the call returned without touching the store
Return(op, r, e, f, arg, out) ==
    /\ res' = R(op, r, e, f, arg, out)
    /\ ops' = ops + 1
    /\ UNCHANGED <<content, key, unsaved, clock, panicked, cx, app>>

\* variant: the store's last_update is left as it was
updated_entry_only(entry, global, now) ==
    [entry |-> [entry EXCEPT !.last_update = now],
     global_update |-> global, unsaved |-> TRUE]

\* variant: the entry's creation stamp follows its last update
updated_restamping(entry, global, now) ==
    [entry |-> [entry EXCEPT !.last_update = now, !.first_added = now],
     global_update |-> now, unsaved |-> TRUE]

\* EntryMut::updated
updated(entry, global, now) ==
    [entry |-> [entry EXCEPT !.last_update = now],
     global_update |-> now, unsaved |-> TRUE]

\* FieldMut::updated
field_updated(entry, global, now) ==
    [entry |-> [entry EXCEPT !.last_update = now],
     global_update |-> now, unsaved |-> TRUE]

\* write back what EntryMut / FieldMut changed through its references
Commit(op, e, f, arg, u, now) ==
    /\ inner' = [inner EXCEPT ![e + 1] = u.entry]
    /\ last_update' = u.global_update
    /\ unsaved' = u.unsaved
    /\ clock' = now
    /\ res' = R(op, "Ok", e, f, arg, <<>>)
    /\ ops' = ops + 1
    /\ UNCHANGED <<version, token, iv, salt, key, panicked, cx, app>>

EntryIdx ==
    0..(Len(inner) - 1)

FieldIdx(e) ==
    0..(Len(inner[e + 1].fields) - 1)

\* the system clock advances between calls
Tick ==
    /\ Running
    /\ clock < MaxTime
    /\ clock' = clock + 1
    /\ res' = R("tick", "Ok", 0, 0, <<>>, <<>>)
    /\ ops' = ops + 1
    /\ UNCHANGED <<content, key, unsaved, panicked, cx, app>>

set_key ==
    /\ Running
    /\ \E pwd \in Passwords :
       \E g \in GarbageFor(token, iv, HashKey(version, salt, pwd)) :
          LET sk == set_key_result(version, token, iv, salt, key, pwd, g)
          IN  IF sk.r = "Panic"
              THEN Abort("set_key", 0, 0, pwd)
              ELSE /\ key' = sk.key
                   /\ res' = R("set_key", sk.r, 0, 0, pwd, <<>>)
                   /\ ops' = ops + 1
                   /\ UNCHANGED <<content, unsaved, clock, panicked, cx, app>>

mark_saved ==
    /\ Running
    /\ unsaved' = FALSE
    /\ res' = R("mark_saved", "Ok", 0, 0, <<>>, <<>>)
    /\ ops' = ops + 1
    /\ UNCHANGED <<content, key, clock, panicked, cx, app>>

add_empty_entry ==
    /\ Running
    /\ Len(inner) < MaxEntries
    /\ \E name \in EntryNames, now \in Now :
          /\ inner' = Append(inner, [name |-> name, tags |-> <<>>, fields |-> <<>>,
                                     first_added |-> now, last_update |-> now])
          /\ last_update' = now
          /\ unsaved' = TRUE
          /\ clock' = now
          /\ res' = R("add_empty_entry", "Ok", Len(inner), 0, name, <<>>)
          /\ ops' = ops + 1
          /\ UNCHANGED <<version, token, iv, salt, key, panicked, cx, app>>

remove_entry ==
    /\ Running
    /\ \E e \in EntryIdx, now \in Now :
          /\ inner' = Remove(inner, e)
          /\ last_update' = now
          /\ unsaved' = TRUE
          /\ clock' = now
          /\ res' = R("remove_entry", "Ok", e, 0, <<>>, <<>>)
          /\ ops' = ops + 1
          /\ UNCHANGED <<version, token, iv, salt, key, panicked, cx, app>>

set_name ==
    /\ Running
    /\ \E e \in EntryIdx, name \in EntryNames, now \in Now :
          Commit("set_name", e, 0, name,
                 updated([inner[e + 1] EXCEPT !.name = name], last_update, now), now)

set_tags ==
    /\ Running
    /\ \E e \in EntryIdx, tags \in TagLists, now \in Now :
          Commit("set_tags", e, 0, tags,
                 updated([inner[e + 1] EXCEPT !.tags = tags], last_update, now), now)

\* the salts encrypt can draw when set_field encrypts this builder's value
BuilderRng(b, k) ==
    IF k = None \/ b.name = None \/ b.value = None THEN {FieldRng}
    ELSE LET pv == Unwrap(b.value)
         IN  IF pv.kind = "Manual" /\ ~pv.protected /\ version = "v0.4"
             THEN {FieldRng}
             ELSE RngDraws(PlainBytes(pv))

\* FieldBuilder::make_totp
make_totp ==
    /\ Running
    /\ Return("make_totp", make_totp_result(version), 0, 0, <<>>, <<>>)

\* FieldBuilder::set_value on a fresh builder
set_value ==
    /\ Running
    /\ \E pv \in AllPlaintextValues :
          IF builder_set_value(version, field_builder, pv) = Panic
          THEN Abort("set_value", 0, 0, pv)
          ELSE Return("set_value", "Ok", 0, 0, pv, <<>>)

set_field ==
    /\ Running
    /\ \E e \in EntryIdx, b \in Builders(version), now \in Now :
          \E idx \in 0..Len(inner[e + 1].fields), rng \in BuilderRng(b, key) :
             /\ idx < MaxFields
             /\ IF b.name = None \/ b.value = None
                THEN Abort("set_field", e, idx, b)
                ELSE LET name == Unwrap(b.name)
                         v == set_field_value(version, Unwrap(b.value), key, iv, rng)
                         entry == inner[e + 1]
                     IN  IF v.t = "Panic" THEN Abort("set_field", e, idx, b)
                         ELSE IF v.t = "Err"
                         THEN Return("set_field", v.e, e, idx, b, v.kind)
                         ELSE Commit("set_field", e, idx, b,
                                     updated([entry EXCEPT !.fields =
                                                 put_field(entry.fields, idx,
                                                           [name |-> name,
                                                            value |-> v.v])],
                                             last_update, now),
                                     now)

remove_field ==
    /\ Running
    /\ \E e \in EntryIdx, now \in Now :
          \E f \in FieldIdx(e) :
             Commit("remove_field", e, f, <<>>,
                    updated([inner[e + 1] EXCEPT !.fields = Remove(@, f)],
                            last_update, now),
                    now)

\* the salts encrypt can draw when the call encrypts this value
SwapRng(v, k) ==
    IF v.kind = "Basic" /\ k # None THEN RngDraws(v.s) ELSE {FieldRng}

\* the answers the cipher can give when the call decrypts this value
FieldGarbage(v, i, k) ==
    IF k = None \/ v.kind = "Basic" THEN {[t |-> "Err"]}
    ELSE IF v.kind = "Protected" THEN GarbageFor(v.bs, i, Unwrap(k))
    ELSE GarbageFor(v.secret, i, Unwrap(k))

swap_encryption ==
    /\ Running
    /\ \E e \in EntryIdx, now \in Now :
          \E f \in FieldIdx(e) :
             LET entry == inner[e + 1]
                 field == entry.fields[f + 1]
             IN  \E rng \in SwapRng(field.value, key),
                    g \in FieldGarbage(field.value, iv, key) :
                    LET v == swap_encryption_value(version, field.value, key, iv, rng, g)
                    IN  IF v.t = "Panic" THEN Abort("swap_encryption", e, f, <<>>)
                        ELSE IF v.t = "Err"
                        THEN Return("swap_encryption", v.e, e, f, <<>>, <<>>)
                        ELSE Commit("swap_encryption", e, f, <<>>,
                                    field_updated([entry EXCEPT !.fields[f + 1].value = v.v],
                                                  last_update, now),
                                    now)

\* FieldRef::value
value ==
    /\ Running
    /\ \E e \in EntryIdx :
          \E f \in FieldIdx(e) :
             LET field == inner[e + 1].fields[f + 1]
             IN  \E g \in FieldGarbage(field.value, iv, key) :
                    LET v == value_of(version, field.value, key, iv, g, clock)
                    IN  IF v.t = "Panic" THEN Abort("value", e, f, <<>>)
                        ELSE IF v.t = "Err" THEN Return("value", v.e, e, f, <<>>, <<>>)
                        ELSE Return("value", "Ok", e, f, <<>>, v.v)

\* FieldRef::plaintext_value
plaintext_value ==
    /\ Running
    /\ \E e \in EntryIdx :
          \E f \in FieldIdx(e) :
             LET field == inner[e + 1].fields[f + 1]
             IN  \E g \in FieldGarbage(field.value, iv, key) :
                    LET v == plaintext_value_of(version, field.value, key, iv, g)
                    IN  IF v.t = "Panic" THEN Abort("plaintext_value", e, f, <<>>)
                        ELSE IF v.t = "Err"
                        THEN Return("plaintext_value", v.e, e, f, <<>>, <<>>)
                        ELSE Return("plaintext_value", "Ok", e, f, <<>>, v.v)

Next ==
    \/ Tick
    \/ set_key
    \/ mark_saved
    \/ add_empty_entry
    \/ remove_entry
    \/ set_name
    \/ set_tags
    \/ make_totp
    \/ set_value
    \/ set_field
    \/ remove_field
    \/ swap_encryption
    \/ value
    \/ plaintext_value

Spec ==
    Init /\ [][Next]_vars

-----------------------------------------------------------------------------
(* Migration to the current format and the plaintext representation *)

\* the version tag latest.rs writes (its VERSION_STR is the one it imports)
LATEST_VERSION_STR ==
    "v0.3"

PlaintextField(name, val, protected) ==
    [name |-> name, value |-> val, protected |-> protected]

PlaintextEntry(name, tags, fields, first_added, lu) ==
    [name |-> name, tags |-> tags, fields |-> fields,
     first_added |-> first_added, last_update |-> lu]

PlaintextContent(lu, entries) ==
    [last_update |-> lu, entries |-> entries]

\* PlaintextContent::init: no entries
PlaintextContent_init(now) ==
    PlaintextContent(now, <<>>)

FileContent(ver, tok, i, s, lu, ents) ==
    [version |-> ver, token |-> tok, iv |-> i, salt |-> s,
     last_update |-> lu, inner |-> ents]

\* the values the random generators return at the n-th call: each is new
FreshIvs ==
    <<"iv2", "iv3", "iv4", "iv5", "iv6", "iv7">>

FreshSalts ==
    <<"salt2", "salt3", "salt4", "salt5", "salt6", "salt7">>

\* thread_rng() inside encrypt: the shortest or the longest salt allowed
FreshRng(val, long) ==
    [first |-> 110,
     salt_len |-> IF long THEN SALT_MAX_LENGTH ELSE min_salt_len(val)]

\* position of the first result that is not Ok, 0 if there is none
FirstBad(rs) ==
    LET bad == {j \in 1..Len(rs) : rs[j].t # "Ok"}
    IN  IF bad = {} THEN 0 ELSE CHOOSE j \in bad : \A m \in bad : j <= m

\* Iterator::collect::<Result<_, _>>: the values, or the first failure
Collect(rs) ==
    IF FirstBad(rs) = 0
    THEN [t |-> "Ok", v |-> [j \in 1..Len(rs) |-> rs[j].v]]
    ELSE rs[FirstBad(rs)]

\* variant: the protected flag is read the other way round
from_plaintext_value_inverted(f, i, k, long) ==
    IF f.protected
    THEN Basic(f.value)
    ELSE Protected(encrypt(f.value, i, k, FreshRng(f.value, long)).v)

\* from_plaintext: the Value stored for a plaintext field
from_plaintext_value(f, i, k, long) ==
    IF ~f.protected
    THEN Basic(f.value)
    ELSE Protected(encrypt(f.value, i, k, FreshRng(f.value, long)).v)

\* variant: the IV and the salt of an existing store are taken over
from_plaintext_reuse(pwd, c, pwd_salt, new_iv, long) ==
    LET hashed_key == hash_key(salt, pwd)
        tok == encrypt(ENCRYPT_TOKEN, iv, hashed_key,
                       FreshRng(ENCRYPT_TOKEN, long)).v
        ents == [e \in 1..Len(c.entries) |->
                    [name |-> c.entries[e].name,
                     tags |-> c.entries[e].tags,
                     fields |-> [f \in 1..Len(c.entries[e].fields) |->
                                    [name |-> c.entries[e].fields[f].name,
                                     value |-> from_plaintext_value(
                                                  c.entries[e].fields[f],
                                                  iv, hashed_key, long)]],
                     first_added |-> c.entries[e].first_added,
                     last_update |-> c.entries[e].last_update]]
    IN  [content |-> FileContent(LATEST_VERSION_STR, tok, iv, salt,
                                 c.last_update, ents),
         key |-> Keyed_new.key, unsaved |-> Keyed_new.unsaved]

\* Keyed<FileContent>::from_plaintext
from_plaintext_result(pwd, c, pwd_salt, new_iv, long) ==
    LET hashed_key == hash_key(pwd_salt, pwd)
        tok == encrypt(ENCRYPT_TOKEN, new_iv, hashed_key,
                       FreshRng(ENCRYPT_TOKEN, long)).v
        ents == [e \in 1..Len(c.entries) |->
                    [name |-> c.entries[e].name,
                     tags |-> c.entries[e].tags,
                     fields |-> [f \in 1..Len(c.entries[e].fields) |->
                                    [name |-> c.entries[e].fields[f].name,
                                     value |-> from_plaintext_value(
                                                  c.entries[e].fields[f],
                                                  new_iv, hashed_key, long)]],
                     first_added |-> c.entries[e].first_added,
                     last_update |-> c.entries[e].last_update]]
    IN  [content |-> FileContent(LATEST_VERSION_STR, tok, new_iv, pwd_salt,
                                 c.last_update, ents),
         key |-> Keyed_new.key, unsaved |-> Keyed_new.unsaved]

\* to_plaintext: one field
to_plaintext_field(f, i, k, g) ==
    IF f.value.kind = "Basic"
    THEN [t |-> "Ok", v |-> PlaintextField(f.name, f.value.s, FALSE)]
    ELSE LET d == decrypt(f.value.bs, i, k, g)
         IN  IF d.t = "Panic" THEN Panic
             ELSE IF d.t = "None" \/ ~IsUtf8(d.v) THEN [t |-> "Err", e |-> "Err"]
             ELSE [t |-> "Ok", v |-> PlaintextField(f.name, d.v, TRUE)]

\* Keyed<FileContent>::to_plaintext
to_plaintext_result(c, k, g) ==
    IF k = None THEN Panic
    ELSE LET ents ==
                Collect([e \in 1..Len(c.inner) |->
                    LET fields == Collect([f \in 1..Len(c.inner[e].fields) |->
                                      to_plaintext_field(c.inner[e].fields[f],
                                                         c.iv, Unwrap(k), g)])
                    IN  IF fields.t # "Ok" THEN fields
                        ELSE [t |-> "Ok",
                              v |-> PlaintextEntry(c.inner[e].name,
                                                   c.inner[e].tags, fields.v,
                                                   c.inner[e].first_added,
                                                   c.inner[e].last_update)]])
         IN  IF ents.t # "Ok" THEN ents
             ELSE [t |-> "Ok", v |-> PlaintextContent(c.last_update, ents.v)]

\* v0.4 to_current: set_key, then the store itself
to_current_v04(c, cur, uns, pwd, g) ==
    LET sk == set_key_result("v0.4", c.token, c.iv, c.salt, cur, pwd, g)
    IN  IF sk.r = "Panic" THEN [r |-> "Panic"]
        ELSE IF sk.r # "Ok" THEN [r |-> sk.r]
        ELSE [r |-> "Ok", content |-> c, key |-> sk.key, unsaved |-> uns]

\* v0.3 to_current: the same token, iv, salt and values under the v0.4 tag,
\* in a new container, then v0.4 to_current
to_current_v03(c, cur, uns, pwd, g) ==
    LET content_v0_4 ==
            FileContent("v0.4", c.token, c.iv, c.salt, c.last_update,
                [e \in 1..Len(c.inner) |->
                    [name |-> c.inner[e].name,
                     tags |-> c.inner[e].tags,
                     first_added |-> c.inner[e].first_added,
                     last_update |-> c.inner[e].last_update,
                     fields |-> [f \in 1..Len(c.inner[e].fields) |->
                                    [name |-> c.inner[e].fields[f].name,
                                     value |-> c.inner[e].fields[f].value]]]])
    IN  to_current_v04(content_v0_4, Keyed_new.key, Keyed_new.unsaved, pwd, g)

\* variant: every field is exported as unprotected
to_current_v02_field_plain(f, i, k, fg) ==
    IF f.value.kind = "Basic"
    THEN [t |-> "Ok", v |-> PlaintextField(f.name, f.value.s, FALSE)]
    ELSE LET d == decrypt_string_v02(f.value.bs, i, k, fg)
         IN  IF d.t # "Ok" THEN d
             ELSE [t |-> "Ok", v |-> PlaintextField(f.name, d.v, FALSE)]

\* v0.2 to_current: one field
to_current_v02_field(f, i, k, fg) ==
    IF f.value.kind = "Basic"
    THEN [t |-> "Ok", v |-> PlaintextField(f.name, f.value.s, FALSE)]
    ELSE LET d == decrypt_string_v02(f.value.bs, i, k, fg)
         IN  IF d.t # "Ok" THEN d
             ELSE [t |-> "Ok", v |-> PlaintextField(f.name, d.v, TRUE)]

\* v0.2 to_current: set_key unless decrypted, decrypt into plaintext, then
\* from_plaintext with the password given
to_current_v02(c, cur, uns, pwd, g, fg, pwd_salt, new_iv, long) ==
    LET sk == IF cur = None
              THEN set_key_result("v0.2", c.token, c.iv, c.salt, cur, pwd, g)
              ELSE [r |-> "Ok", key |-> cur]
    IN  IF sk.r # "Ok" THEN [r |-> sk.r]
        ELSE
        LET k == Unwrap(sk.key)
            entries ==
                Collect([e \in 1..Len(c.inner) |->
                    LET fields == Collect([f \in 1..Len(c.inner[e].fields) |->
                                      to_current_v02_field(c.inner[e].fields[f],
                                                           c.iv, k, fg)])
                    IN  IF fields.t # "Ok" THEN fields
                        ELSE [t |-> "Ok",
                              v |-> PlaintextEntry(c.inner[e].name,
                                                   c.inner[e].tags, fields.v,
                                                   c.inner[e].first_added,
                                                   c.inner[e].last_update)]])
        IN  IF entries.t # "Ok" THEN [r |-> entries.e]
            ELSE LET n == from_plaintext_result(
                              pwd, PlaintextContent(c.last_update, entries.v),
                              pwd_salt, new_iv, long)
                 IN  [r |-> "Ok", content |-> n.content, key |-> n.key,
                      unsaved |-> n.unsaved]

\* FileContent::to_current of the loaded version
to_current_result(c, cur, uns, pwd, g, fg, pwd_salt, new_iv, long) ==
    IF c.version = "v0.4" THEN to_current_v04(c, cur, uns, pwd, g)
    ELSE IF c.version = "v0.3" THEN to_current_v03(c, cur, uns, pwd, g)
    ELSE to_current_v02(c, cur, uns, pwd, g, fg, pwd_salt, new_iv, long)

\* the store in the container
ThisContent ==
    FileContent(version, token, iv, salt, last_update, inner)

\* a container exists (to_current and to_plaintext take theirs by value)
HasStore ==
    version \in Versions

\* the ciphertexts of the Protected fields
ProtectedOf(ents) ==
    UNION {{ents[e].fields[f].value.bs :
               f \in {j \in 1..Len(ents[e].fields) :
                         ents[e].fields[j].value.kind = "Protected"}} :
           e \in 1..Len(ents)}

\* the answers the cipher can give for the fields that do not belong to (k, i)
FieldsGarbage(ents, i, k) ==
    {[t |-> "Err"]} \cup UNION {GarbageFor(ct, i, k) : ct \in ProtectedOf(ents)}

\* the plaintext contents handed to from_plaintext
PlainContents ==
    {PlaintextContent(0, <<>>),
     PlaintextContent(1,
        <<PlaintextEntry("Bank", <<"work">>,
                         <<PlaintextField("user", <<115>>, FALSE),
                           PlaintextField("pin", <<115>>, TRUE)>>, 0, 1)>>),
     PlaintextContent(1,
        <<PlaintextEntry("Mail", <<>>, <<PlaintextField("pin", <<>>, TRUE)>>, 1, 1),
          PlaintextEntry("Bank", <<>>, <<>>, 0, 0)>>)}

\* an entry of the file with distinct timestamps
MigrateEntry(fields) ==
    [name |-> "Bank", tags |-> <<"work">>, fields |-> fields,
     first_added |-> 0, last_update |-> 1]

\* the entries of the file that is migrated
MigrateEntries(ver) ==
    {<<>>,
     <<MigrateEntry(<<[name |-> "user", value |-> Basic(<<115>>)],
                      [name |-> "pin",
                       value |-> Protected(FileEncrypt(ver, <<115>>, FieldRng))]>>),
       [name |-> "Mail", tags |-> <<>>, fields |-> <<>>,
        first_added |-> 1, last_update |-> 1]>>,
     <<MigrateEntry(<<[name |-> "pin", value |-> Protected(Corrupt)]>>)>>}

\* parse, for the update, emit-plaintext and from-plaintext commands
MigrateInit ==
    /\ version \in Versions
    /\ token \in FileTokens(version)
    /\ iv = FileIv
    /\ salt = FileSalt
    /\ last_update = 1
    /\ inner \in MigrateEntries(version)
    /\ (token = Corrupt => inner = <<>>)
    /\ key = Keyed_new.key
    /\ unsaved = Keyed_new.unsaved
    /\ clock = 1
    /\ res = NoRes
    /\ panicked = FALSE
    /\ ops = 0
    /\ cx = CodecIdle
    /\ app = NoApp

\* the container holds this store
Install(n) ==
    /\ version' = n.content.version
    /\ token' = n.content.token
    /\ iv' = n.content.iv
    /\ salt' = n.content.salt
    /\ last_update' = n.content.last_update
    /\ inner' = n.content.inner
    /\ key' = n.key
    /\ unsaved' = n.unsaved

\* the container was moved into the call and dropped
Consumed ==
    /\ version' = "none"
    /\ UNCHANGED <<token, iv, salt, last_update, inner, key, unsaved>>

\* FileContent::to_current
to_current ==
    /\ Running
    /\ HasStore
    /\ \E pwd \in Passwords, long \in BOOLEAN :
       \E g \in GarbageFor(token, iv, HashKey(version, salt, pwd)) :
       \E fg \in (IF version = "v0.2"
                  THEN FieldsGarbage(inner, iv,
                                     IF key # None THEN Unwrap(key)
                                     ELSE HashKey(version, salt, pwd))
                  ELSE {[t |-> "Err"]}) :
          LET n == to_current_result(ThisContent, key, unsaved, pwd, g, fg,
                                     FreshSalts[ops + 1], FreshIvs[ops + 1], long)
              arg == [pwd |-> pwd, fg |-> fg]
          IN  IF n.r = "Panic" THEN Abort("to_current", 0, 0, arg)
              ELSE /\ IF n.r = "Ok" THEN Install(n) ELSE Consumed
                   /\ res' = R("to_current", n.r, 0, 0, arg, <<>>)
                   /\ ops' = ops + 1
                   /\ UNCHANGED <<clock, panicked, cx, app>>

\* Keyed<FileContent>::to_plaintext, on a store of Basic and Protected fields
to_plaintext ==
    /\ Running
    /\ HasStore
    /\ version # "v0.2"
    /\ \A e \in 1..Len(inner) : \A f \in 1..Len(inner[e].fields) :
          inner[e].fields[f].value.kind # "Totp"
    /\ \E g \in (IF key = None THEN {[t |-> "Err"]}
                 ELSE FieldsGarbage(inner, iv, Unwrap(key))) :
          LET p == to_plaintext_result(ThisContent, key, g)
          IN  IF p.t = "Panic" THEN Abort("to_plaintext", 0, 0, <<>>)
              ELSE /\ Consumed
                   /\ res' = R("to_plaintext", p.t, 0, 0, <<>>,
                               IF p.t = "Ok" THEN p.v ELSE <<>>)
                   /\ ops' = ops + 1
                   /\ UNCHANGED <<clock, panicked, cx, app>>

\* Keyed<FileContent>::from_plaintext
from_plaintext ==
    /\ Running
    /\ \E pwd \in Passwords, c \in PlainContents, long \in BOOLEAN :
          /\ Install(from_plaintext_result(pwd, c, FreshSalts[ops + 1],
                                           FreshIvs[ops + 1], long))
          /\ res' = R("from_plaintext", "Ok", 0, 0,
                      [pwd |-> pwd, content |-> c], <<>>)
          /\ ops' = ops + 1
          /\ UNCHANGED <<clock, panicked, cx, app>>

\* Keyed<FileContent>::make_new
make_new ==
    /\ Running
    /\ \E pwd \in Passwords, long \in BOOLEAN :
          /\ Install(from_plaintext_result(pwd, PlaintextContent_init(clock),
                                           FreshSalts[ops + 1], FreshIvs[ops + 1],
                                           long))
          /\ res' = R("make_new", "Ok", 0, 0,
                      [pwd |-> pwd, content |-> PlaintextContent_init(clock)], <<>>)
          /\ ops' = ops + 1
          /\ UNCHANGED <<clock, panicked, cx, app>>

MigrateNext ==
    \/ HasStore /\ set_key
    \/ to_current
    \/ to_plaintext
    \/ from_plaintext
    \/ make_new

SpecMigrate ==
    MigrateInit /\ [][MigrateNext]_vars

-----------------------------------------------------------------------------
(* FieldRef::value on a Totp field, over a range of Unix times *)

\* the stored Totp field whose decrypted secret is secret
TotpField(secret) ==
    [name |-> "otp", value |-> Totp("acme", FileEncrypt("v0.4", secret, FieldRng))]

\* an unlocked v0.4 store with one Totp field, at some Unix time
TotpInit ==
    /\ version = "v0.4"
    /\ token = FileEncrypt("v0.4", ENCRYPT_TOKEN, TokenRng)
    /\ iv = FileIv
    /\ salt = FileSalt
    /\ last_update = 0
    /\ inner \in {<<FileEntry(<<TotpField(secret)>>)>> : secret \in TotpSecrets}
    /\ key = Some(FileKey("v0.4"))
    /\ unsaved = FALSE
    /\ clock \in 0..MaxUnixTime
    /\ res = NoRes
    /\ panicked = FALSE
    /\ ops = 0
    /\ cx = CodecIdle
    /\ app = NoApp

\* FieldRef::value at the current time
TotpValue ==
    /\ res.op = "none"
    /\ LET field == inner[1].fields[1]
           v == value_of(version, field.value, key, iv, [t |-> "Err"], clock)
       IN  res' = IF v.t = "Ok"
                  THEN R("value", "Ok", 0, 0, <<>>, v.v)
                  ELSE R("value", v.e, 0, 0, <<>>, <<>>)
    /\ UNCHANGED <<content, key, unsaved, clock, panicked, ops, cx, app>>

\* a second passes
TotpTick ==
    /\ clock < MaxUnixTime
    /\ clock' = clock + 1
    /\ res' = NoRes
    /\ UNCHANGED <<content, key, unsaved, panicked, ops, cx, app>>

TotpNext ==
    \/ TotpValue
    \/ TotpTick

SpecTotp ==
    TotpInit /\ [][TotpNext]_vars

-----------------------------------------------------------------------------------------------------------------------------------------------------
(* The terminal application: run's loop of App::handle and ui::draw *)

\* SelectState
Main ==
    [t |-> "Main"]

Entries ==
    [t |-> "Entries"]

PopUp(header) ==
    [t |-> "PopUp", header |-> header]

BottomCommand(kind, val, as_stars) ==
    [t |-> "BottomCommand", kind |-> kind, value |-> val, as_stars |-> as_stars]

\* EntrySelectState
Name ==
    [t |-> "Name"]

Tags ==
    [t |-> "Tags"]

Field(idx) ==
    [t |-> "Field", idx |-> idx]

Plus ==
    [t |-> "Plus"]

\* CommandKind
Search(return_to_main, previous) ==
    [k |-> "Search", return_to_main |-> return_to_main, previous |-> previous]

Command(return_to_main) ==
    [k |-> "Command", return_to_main |-> return_to_main]

ModifyEntryMeta ==
    [k |-> "ModifyEntryMeta"]

ModifyField(builder, state, value_kind, old_value, field_idx) ==
    [k |-> "ModifyField", builder |-> builder, state |-> state,
     value_kind |-> value_kind, old_value |-> old_value, field_idx |-> field_idx]

DecryptPrompt(return_to_main, redo) ==
    [k |-> "Decrypt", return_to_main |-> return_to_main, redo |-> redo]

\* ModifyFieldState
StateName ==
    [s |-> "Name"]

ManualValue(protected) ==
    [s |-> "ManualValue", protected |-> protected]

TotpIssuer ==
    [s |-> "TotpIssuer"]

TotpSecret(issuer) ==
    [s |-> "TotpSecret", issuer |-> issuer]

\* termion events: the keys the user presses
KeyChar(c) ==
    [key |-> "Char", c |-> c]

KeyCtrl(c) ==
    [key |-> "Ctrl", c |-> c]

KeyEsc ==
    [key |-> "Esc", c |-> ""]

KeyBackspace ==
    [key |-> "Backspace", c |-> ""]

Enter ==
    KeyChar("\n")

\* Cmd::try_from
Cmd(ev) ==
    IF ev.key = "Char"
    THEN CASE ev.c = "h" -> "Left"
           [] ev.c = "j" -> "Down"
           [] ev.c = "k" -> "Up"
           [] ev.c = "l" -> "Right"
           [] ev.c = "/" -> "StartSearch"
           [] ev.c = ":" -> "StartCommand"
           [] ev.c = "q" -> "Quit"
           [] ev.c = "\n" -> "Select"
           [] OTHER -> "Err"
    ELSE IF ev.key = "Ctrl"
    THEN CASE ev.c = "e" -> "ScrollDown"
           [] ev.c = "y" -> "ScrollUp"
           [] OTHER -> "Err"
    ELSE "Err"

\* the text typed into the command, password and search prompts is a
\* sequence of characters
Chars(s) ==
    CASE s = "" -> <<>>
      [] s = "q" -> <<"q">>
      [] s = "q!" -> <<"q", "!">>
      [] s = "w" -> <<"w">>
      [] s = "wq" -> <<"w", "q">>
      [] s = "new" -> <<"n", "e", "w">>
      [] s = "delete" -> <<"d", "e", "l", "e", "t", "e">>
      [] s = "unlock" -> <<"u", "n", "l", "o", "c", "k">>
      [] s = "unlock!" -> <<"u", "n", "l", "o", "c", "k", "!">>
      [] s = "pw1" -> <<"p", "w", "1">>
      [] s = "no" -> <<"n", "o">>
      [] s = "an" -> <<"a", "n">>
      [] s = "z" -> <<"z">>
      [] s = "x" -> <<"x">>
      [] s = "Bank" -> <<"b", "a", "n", "k">>
      [] s = "Mail" -> <<"m", "a", "i", "l">>
      [] s = "work" -> <<"w", "o", "r", "k">>
      [] s = "<New Entry>" -> <<"<", "n", "e", "w", " ", "e", "n", "t", "r", "y", ">">>

\* the texts that lead to one of the words, character by character
Prefixes(words) ==
    UNION {{SubSeq(Chars(w), 1, n) : n \in 0..Len(Chars(w))} : w \in words}

\* the password a typed text is: the file's, or another one
PwdOf(val) ==
    IF val = Chars(FilePwd) THEN FilePwd ELSE "wrong"

RECURSIVE IsSubseq(_, _)
\* the characters of pattern occur in choice, in order
IsSubseq(pattern, choice) ==
    IF pattern = <<>> THEN TRUE
    ELSE IF choice = <<>> THEN FALSE
    ELSE IF Head(pattern) = Head(choice)
    THEN IsSubseq(Tail(pattern), Tail(choice))
    ELSE IsSubseq(pattern, Tail(choice))

\* fuzzy_match: whether the entry gets a score (SkimMatcherV2 scores a
\* lower-case pattern that is a subsequence of the choice, ignoring case)
fuzzy_match(target, name, tags) ==
    \/ IsSubseq(target, Chars(name))
    \/ \E t \in 1..Len(tags) : IsSubseq(target, Chars(tags[t]))

\* the indices set_filter can leave in the filter: the matching entries, in
\* the order of their scores
Orders(ents, term) ==
    LET matches == {i \in 0..(Len(ents) - 1) :
                       fuzzy_match(term, ents[i + 1].name, ents[i + 1].tags)}
        n == Cardinality(matches)
    IN  {q \in [1..n -> matches] : \A a, b \in 1..n : a # b => q[a] # q[b]}

\* usize::MAX
USIZE_MAX ==
    2147483647

\* a - b on usize when overflow checks are off
WrappingSub(a, b) ==
    IF a >= b THEN a - b ELSE USIZE_MAX - (b - a - 1)

\* Vec::pop / String::pop
Pop(seq) ==
    IF Len(seq) = 0 THEN seq ELSE SubSeq(seq, 1, Len(seq) - 1)

\* tags().join(","): the text offered when the tags are edited
Join(tags) ==
    [joined |-> tags]

\* value.split(','): an empty text splits into one empty tag
Split(val) ==
    IF val.joined = <<>> THEN <<"">> ELSE val.joined

\* the draw of thread_rng() when the application encrypts a value
AppRng ==
    [first |-> 110, salt_len |-> SALT_MAX_LENGTH]

\* the rows of the terminal (the entries list has a border of two rows)
TermRows ==
    {2, 4}

\* the App and the store it owns, as the value the handlers transform;
\* panic, overflow (the subtractions on usize that went below 0), cont and
\* calls describe the handling of one event
AppState ==
    [selected |-> app.selected, filter |-> app.filter,
     search_term |-> app.search_term,
     start_entries_row |-> app.start_entries_row,
     selected_entries_row |-> app.selected_entries_row,
     last_entries_height |-> app.last_entries_height,
     main_selected |-> app.main_selected,
     displayed_entry_idx |-> app.displayed_entry_idx,
     inner |-> inner, last_update |-> last_update, key |-> key,
     unsaved |-> unsaved,
     panic |-> FALSE, overflow |-> {}, cont |-> TRUE, calls |-> <<>>]

Sel(S, x) ==
    [S EXCEPT !.selected = x]

Panicked(S) ==
    [S EXCEPT !.panic = TRUE]

Call(S, name) ==
    [S EXCEPT !.calls = Append(@, name)]

Back(S, return_to_main) ==
    Sel(S, IF return_to_main THEN Main ELSE Entries)

\* the entry at idx exists (indexing self.content.inner[idx])
InRange(S, idx) ==
    idx < Len(S.inner)

\* App::sidebar_selected_entry
sidebar_selected_entry(S) ==
    LET idx == S.selected_entries_row + S.start_entries_row
    IN  IF S.filter # None
        THEN LET list == Unwrap(S.filter)
             IN  IF idx < Len(list) THEN Some(list[idx + 1]) ELSE None
        ELSE IF idx >= Len(S.inner) THEN None
        ELSE Some(idx)

\* the number of items listed in the sidebar
num_items(S) ==
    IF S.filter # None THEN Len(Unwrap(S.filter)) ELSE Len(S.inner)

\* App::update_displayed_entry
update_displayed_entry(S) ==
    LET max_len == num_items(S)
        current_idx == S.start_entries_row + S.selected_entries_row
    IN  IF max_len = 0
        THEN [S EXCEPT !.start_entries_row = 0, !.selected_entries_row = 0,
                       !.displayed_entry_idx = None]
        ELSE LET max_idx == max_len - 1
                 diff == current_idx - max_idx
                 new_start == SatSub(S.start_entries_row, diff)
                 moved == S.start_entries_row - new_start
                 remaining_diff == WrappingSub(diff, moved)
                 S1 == IF current_idx > max_idx
                       THEN [S EXCEPT
                               !.start_entries_row = new_start,
                               !.selected_entries_row =
                                   WrappingSub(@, remaining_diff),
                               !.overflow =
                                   @ \cup
                                   (IF \/ diff < moved
                                       \/ S.selected_entries_row < remaining_diff
                                    THEN {"selected_entries_row"} ELSE {})]
                       ELSE S
             IN  [S1 EXCEPT !.displayed_entry_idx = sidebar_selected_entry(S1)]

\* App::set_filter; order is the matching indices sorted by score
set_filter(S, new_term, order) ==
    IF new_term = None \/ new_term = Some(<<>>)
    THEN [S EXCEPT !.search_term = None, !.filter = None]
    ELSE [S EXCEPT !.search_term = new_term, !.filter = Some(order)]

\* variant: any key answers the warning by quitting
try_quit_always(S) ==
    [ok |-> TRUE, s |-> S]

\* App::try_quit
try_quit(S) ==
    IF ~S.unsaved
    THEN [ok |-> TRUE, s |-> S]
    ELSE [ok |-> FALSE, s |-> Sel(S, PopUp("Warning: There are unsaved changes"))]

\* variant: the store is marked as saved before the file is written
write_marks_first(S, return_to_main, io) ==
    IF io
    THEN [ok |-> TRUE,
          s |-> Back([Call(Call(S, "write"), "mark_saved")
                         EXCEPT !.unsaved = FALSE], return_to_main)]
    ELSE [ok |-> FALSE,
          s |-> Sel([Call(Call(S, "mark_saved"), "write") EXCEPT !.unsaved = FALSE],
                    PopUp("Error: Failed to write to file"))]

\* App::write; io is whether File::create, write! and flush all succeeded
write(S, return_to_main, io) ==
    IF io
    THEN [ok |-> TRUE,
          s |-> Back([Call(Call(S, "write"), "mark_saved")
                         EXCEPT !.unsaved = FALSE], return_to_main)]
    ELSE [ok |-> FALSE,
          s |-> Sel(Call(S, "write"), PopUp("Error: Failed to write to file"))]

\* App::decrypt
decrypt_prompt(S, typed, return_to_main, force, g) ==
    IF S.key # None /\ ~force
    THEN Sel(S, PopUp("Already decrypted"))
    ELSE LET sk == set_key_result(version, token, iv, salt, S.key,
                                  PwdOf(typed), g)
             S1 == Call(S, "set_key")
         IN  IF sk.r = "Panic" THEN Panicked(S1)
             ELSE IF sk.r = "Ok"
             THEN Back([S1 EXCEPT !.key = sk.key], return_to_main)
             ELSE Sel([S1 EXCEPT !.key = sk.key],
                      PopUp("Error: Failed to decrypt"))

\* what EntryMut / FieldMut wrote through its references
WithEntry(S, e, u) ==
    [S EXCEPT !.inner[e + 1] = u.entry, !.last_update = u.global_update,
              !.unsaved = u.unsaved]

\* self.entries.entry_mut(self.displayed_entry_idx.unwrap()) succeeds
HasDisplayed(S) ==
    /\ S.displayed_entry_idx # None
    /\ InRange(S, Unwrap(S.displayed_entry_idx))

\* entry.set_field(field_idx, builder) on the displayed entry
app_set_field(S, field_idx, b, now) ==
    IF ~HasDisplayed(S) \/ b.name = None \/ b.value = None
    THEN [t |-> "Panic", s |-> Panicked(S)]
    ELSE LET e == Unwrap(S.displayed_entry_idx)
             entry == S.inner[e + 1]
             v == set_field_value(version, Unwrap(b.value), S.key, iv, AppRng)
             S1 == Call(S, "set_field")
         IN  IF v.t = "Panic" THEN [t |-> "Panic", s |-> Panicked(S1)]
             ELSE IF v.t = "Err" THEN [t |-> "Err", s |-> S1]
             ELSE IF field_idx > Len(entry.fields)
             THEN [t |-> "Panic", s |-> Panicked(S1)]
             ELSE [t |-> "Ok",
                   s |-> WithEntry(S1, e,
                            updated([entry EXCEPT !.fields =
                                        put_field(entry.fields, field_idx,
                                                  [name |-> Unwrap(b.name),
                                                   value |-> v.v])],
                                    S.last_update, now))]

\* App::execute_command
execute_command(S, cmd, return_to_main, env) ==
    IF cmd = Chars("new")
    THEN LET new_entry_idx == Len(S.inner)
             S1 == [Call(S, "add_empty_entry") EXCEPT
                      !.inner = Append(@, [name |-> "<New Entry>", tags |-> <<>>,
                                           fields |-> <<>>,
                                           first_added |-> env.now,
                                           last_update |-> env.now]),
                      !.last_update = env.now,
                      !.unsaved = TRUE]
         IN  [S1 EXCEPT !.displayed_entry_idx = Some(new_entry_idx),
                        !.main_selected = Name,
                        !.selected = BottomCommand(ModifyEntryMeta, "", FALSE)]
    ELSE IF cmd = Chars("unlock")
    THEN Sel(S, BottomCommand(DecryptPrompt(return_to_main, FALSE), <<>>, TRUE))
    ELSE IF cmd = Chars("unlock!")
    THEN Sel(S, BottomCommand(DecryptPrompt(return_to_main, TRUE), <<>>, TRUE))
    ELSE IF cmd = Chars("q")
    THEN LET quit == try_quit(S)
         IN  [quit.s EXCEPT !.cont = ~quit.ok]
    ELSE IF cmd = Chars("q!")
    THEN [S EXCEPT !.cont = FALSE]
    ELSE IF cmd = Chars("w")
    THEN write(S, return_to_main, env.io).s
    ELSE IF cmd = Chars("wq")
    THEN LET w == write(S, return_to_main, env.io)
         IN  [w.s EXCEPT !.cont = ~w.ok]
    ELSE IF cmd = Chars("delete")
    THEN IF S.displayed_entry_idx # None /\ return_to_main
         THEN LET idx == Unwrap(S.displayed_entry_idx)
                  S1 == Call(S, "remove_entry")
              IN  IF ~InRange(S, idx) THEN Panicked(S1)
                  ELSE
                  LET S2 == [S1 EXCEPT !.inner = Remove(@, idx),
                                       !.last_update = env.now,
                                       !.unsaved = TRUE]
                      list == IF S.filter = None THEN <<>> ELSE Unwrap(S.filter)
                      found == {i \in 1..Len(list) : list[i] = idx}
                      first == CHOOSE i \in found : \A j \in found : i <= j
                      removed == S.filter = None \/ found # {}
                      S3 == IF S.filter # None /\ found # {}
                            THEN [S2 EXCEPT !.filter =
                                               Some(Remove(list, first - 1))]
                            ELSE S2
                  IN  [S3 EXCEPT !.displayed_entry_idx = None,
                                 !.start_entries_row =
                                     IF removed THEN SatSub(@, 1) ELSE @,
                                 !.selected = Entries]
         ELSE IF S.displayed_entry_idx = None
         THEN Sel(S, PopUp("Cannot delete without entry selection"))
         ELSE Sel(S, PopUp("Cannot delete from entries list"))
    ELSE Sel(S, PopUp("Unknown Command"))

\* App::handle_main_cmd
handle_main_cmd(S, cmd, env) ==
    IF S.displayed_entry_idx # None /\ ~HasDisplayed(S) THEN Panicked(S)
    ELSE
    LET has_entry == S.displayed_entry_idx # None
        e == Unwrap(S.displayed_entry_idx)
        entry == S.inner[e + 1]
        num_fields == Len(entry.fields)
        sel == S.main_selected
    IN  IF cmd = "Left"
        THEN Sel(IF sidebar_selected_entry(S) # None
                 THEN [S EXCEPT !.displayed_entry_idx = sidebar_selected_entry(S)]
                 ELSE S,
                 Entries)
        ELSE IF cmd = "Right" THEN S
        ELSE IF cmd \in {"Down", "Up", "Select"} /\ ~has_entry THEN S
        ELSE IF cmd = "Down"
        THEN IF sel.t = "Name" THEN [S EXCEPT !.main_selected = Tags]
             ELSE IF sel.t = "Tags"
             THEN [S EXCEPT !.main_selected =
                                IF num_fields = 0 THEN Plus ELSE Field(0)]
             ELSE IF sel.t = "Field"
             THEN [S EXCEPT !.main_selected =
                                IF sel.idx = WrappingSub(num_fields, 1)
                                THEN Plus ELSE Field(sel.idx + 1),
                            !.overflow = @ \cup (IF num_fields < 1
                                                 THEN {"num_fields"} ELSE {})]
             ELSE S
        ELSE IF cmd = "Up"
        THEN IF sel.t \in {"Name", "Tags"} THEN [S EXCEPT !.main_selected = Name]
             ELSE IF sel.t = "Field"
             THEN [S EXCEPT !.main_selected =
                                IF sel.idx = 0 THEN Tags ELSE Field(sel.idx - 1)]
             ELSE [S EXCEPT !.main_selected =
                               IF num_fields = 0 THEN Tags
                               ELSE Field(num_fields - 1)]
        ELSE IF cmd \in {"ScrollDown", "ScrollUp"} THEN S
        ELSE IF cmd = "StartSearch"
        THEN [S EXCEPT !.selected =
                          BottomCommand(Search(TRUE, S.search_term), <<>>, FALSE),
                       !.search_term = None]
        ELSE IF cmd = "StartCommand"
        THEN Sel(S, BottomCommand(Command(TRUE), <<>>, FALSE))
        ELSE IF cmd = "Quit"
        THEN LET quit == try_quit(S)
             IN  [quit.s EXCEPT !.cont = ~quit.ok]
        ELSE \* Select, with an entry displayed
        IF sel.t = "Field"
        THEN IF sel.idx >= num_fields THEN Panicked(S)
             ELSE
             LET field == entry.fields[sel.idx + 1]
                 pv == plaintext_value_of(version, field.value, S.key, iv, env.fg)
             IN  IF pv.t = "Panic" THEN Panicked(S)
                 ELSE IF pv.t # "Ok"
                 THEN Sel(S, PopUp("Error: Cannot edit field"))
                 ELSE IF pv.v.kind = "Totp" /\ make_totp_result(version) # "Ok"
                 THEN Panicked(S)
                 ELSE Sel(S, BottomCommand(
                                ModifyField(field_builder, StateName, pv.v.kind,
                                            Some(pv.v), sel.idx),
                                field.name, FALSE))
        ELSE IF sel.t = "Plus"
        THEN Sel(S, BottomCommand(
                       ModifyField(field_builder, StateName, "Manual", None,
                                   num_fields),
                       "", FALSE))
        ELSE IF sel.t = "Name"
        THEN Sel(S, BottomCommand(ModifyEntryMeta, entry.name, FALSE))
        ELSE Sel(S, BottomCommand(ModifyEntryMeta, Join(entry.tags), FALSE))

\* App::handle_main_event
handle_main_event(S, ev, env) ==
    IF S.displayed_entry_idx = None THEN S
    ELSE IF ~HasDisplayed(S) THEN Panicked(S)
    ELSE
    LET e == Unwrap(S.displayed_entry_idx)
        entry == S.inner[e + 1]
        sel == S.main_selected
    IN  IF ev = KeyChar("d")
        THEN IF sel.t # "Field" THEN S
             ELSE IF sel.idx >= Len(entry.fields)
             THEN Panicked(Call(S, "remove_field"))
             ELSE LET S1 == WithEntry(Call(S, "remove_field"), e,
                               updated([entry EXCEPT !.fields = Remove(@, sel.idx)],
                                       S.last_update, env.now))
                  IN  [S1 EXCEPT !.main_selected =
                                    IF Len(S1.inner[e + 1].fields) = 0 THEN Tags
                                    ELSE Field(SatSub(sel.idx, 1))]
        ELSE IF ev = KeyChar("s")
        THEN IF sel.t # "Field" THEN S
             ELSE IF S.key = None
             THEN Sel(S, PopUp("Contents not decrypted"))
             ELSE IF sel.idx >= Len(entry.fields)
             THEN Panicked(Call(S, "swap_encryption"))
             ELSE LET field == entry.fields[sel.idx + 1]
                      v == swap_encryption_value(version, field.value, S.key, iv,
                                                 AppRng, env.fg)
                      S1 == Call(S, "swap_encryption")
                  IN  IF v.t = "Panic" THEN Panicked(S1)
                      ELSE IF v.t = "Err"
                      THEN Sel(S1, PopUp("Error: Can't swap field encryption"))
                      ELSE WithEntry(S1, e,
                              field_updated(
                                 [entry EXCEPT !.fields[sel.idx + 1].value = v.v],
                                 S.last_update, env.now))
        ELSE IF ev = KeyChar("+")
        THEN [handle_main_cmd([S EXCEPT !.main_selected = Plus], "Select", env)
                 EXCEPT !.cont = TRUE]
        ELSE IF ev = KeyChar("t")
        THEN IF make_totp_result(version) # "Ok"
             THEN Sel(S, PopUp("Error: Cannot make new TOTP field"))
             ELSE Sel(S, BottomCommand(
                            ModifyField(field_builder, StateName, "Totp", None,
                                        Len(entry.fields)),
                            "", FALSE))
        ELSE S

\* App::handle_entries_cmd
handle_entries_cmd(S, cmd, env) ==
    LET n == num_items(S)
        start == S.start_entries_row
        row == S.selected_entries_row
    IN  IF cmd = "Left" THEN S
        ELSE IF cmd = "Right" THEN Sel(S, Main)
        ELSE IF cmd \in {"Down", "Up", "ScrollDown", "ScrollUp"} /\ n = 0 THEN S
        ELSE IF cmd = "Down"
        THEN IF start + row >= n - 1 THEN S
             ELSE LET last_height == S.last_entries_height
                      S1 == IF row < WrappingSub(last_height, 1)
                            THEN [S EXCEPT !.selected_entries_row = row + 1]
                            ELSE [S EXCEPT !.start_entries_row = start + 1]
                      S2 == [S1 EXCEPT !.overflow =
                                          @ \cup (IF last_height < 1
                                                  THEN {"last_height"} ELSE {})]
                  IN  [S2 EXCEPT !.displayed_entry_idx = sidebar_selected_entry(S2)]
        ELSE IF cmd = "Up"
        THEN IF start = 0 /\ row = 0 THEN S
             ELSE LET S1 == IF row = 0
                            THEN [S EXCEPT !.start_entries_row = start - 1]
                            ELSE [S EXCEPT !.selected_entries_row = row - 1]
                  IN  [S1 EXCEPT !.displayed_entry_idx = sidebar_selected_entry(S1)]
        ELSE IF cmd = "ScrollUp"
        THEN IF start = 0 THEN S
             ELSE [S EXCEPT !.start_entries_row = start - 1,
                            !.selected_entries_row = row + 1]
        ELSE IF cmd = "ScrollDown"
        THEN IF start >= n - 1 THEN S
             ELSE [S EXCEPT !.start_entries_row = start + 1,
                            !.selected_entries_row = SatSub(row, 1)]
        ELSE IF cmd = "StartSearch"
        THEN [S EXCEPT !.selected =
                          BottomCommand(Search(FALSE, S.search_term), <<>>, FALSE),
                       !.search_term = None]
        ELSE IF cmd = "StartCommand"
        THEN Sel(S, BottomCommand(Command(FALSE), <<>>, FALSE))
        ELSE IF cmd = "Quit"
        THEN LET quit == try_quit(S)
             IN  [quit.s EXCEPT !.cont = ~quit.ok]
        ELSE \* Select
        IF sidebar_selected_entry(S) = None THEN S
        ELSE [S EXCEPT !.displayed_entry_idx = sidebar_selected_entry(S),
                       !.selected = Main,
                       !.main_selected = Name]

\* App::handle while the bottom bar holds the input
handle_bottom(S, ev, env) ==
    LET kind == S.selected.kind
        val == S.selected.value
        is_search == kind.k = "Search"
    IN  IF ev = KeyBackspace
        THEN LET S1 == [S EXCEPT !.selected.value = Pop(val)]
             IN  IF is_search
                 THEN update_displayed_entry(set_filter(S1, Some(Pop(val)), env.order))
                 ELSE S1
        ELSE IF ev = Enter
        THEN IF kind.k = "Search"
             THEN Back([set_filter(S, Some(val), env.order) EXCEPT
                          !.start_entries_row = 0,
                          !.selected_entries_row = 0],
                       kind.return_to_main)
             ELSE IF kind.k = "Command"
             THEN execute_command(S, val, kind.return_to_main, env)
             ELSE IF kind.k = "ModifyEntryMeta"
             THEN IF ~HasDisplayed(S) \/ S.main_selected.t \in {"Field", "Plus"}
                  THEN Panicked(S)
                  ELSE LET e == Unwrap(S.displayed_entry_idx)
                           entry == S.inner[e + 1]
                       IN  IF S.main_selected.t = "Name"
                           THEN Sel(WithEntry(Call(S, "set_name"), e,
                                       updated([entry EXCEPT !.name = val],
                                               S.last_update, env.now)),
                                    Main)
                           ELSE Sel(WithEntry(Call(S, "set_tags"), e,
                                       updated([entry EXCEPT !.tags = Split(val)],
                                               S.last_update, env.now)),
                                    Main)
             ELSE IF kind.k = "ModifyField"
             THEN IF kind.state.s = "Name"
                  THEN LET b == builder_set_name(kind.builder, val)
                           old == kind.old_value
                       IN  IF kind.value_kind = "Manual"
                           THEN LET manual == old # None /\ Unwrap(old).kind = "Manual"
                                    protected == manual /\ Unwrap(old).protected
                                IN  [S EXCEPT
                                       !.selected.kind.builder = b,
                                       !.selected.kind.state = ManualValue(protected),
                                       !.selected.value =
                                           IF manual THEN Unwrap(old).value ELSE <<>>]
                           ELSE [S EXCEPT
                                   !.selected.kind.builder = b,
                                   !.selected.kind.state = TotpIssuer,
                                   !.selected.value =
                                       IF old # None /\ Unwrap(old).kind = "Totp"
                                       THEN Unwrap(old).issuer ELSE ""]
                  ELSE IF kind.state.s = "TotpIssuer"
                  THEN [S EXCEPT
                          !.selected.kind.state = TotpSecret(val),
                          !.selected.value =
                              IF kind.old_value # None
                                 /\ Unwrap(kind.old_value).kind = "Totp"
                              THEN Unwrap(kind.old_value).secret ELSE <<>>]
                  ELSE LET pv == IF kind.state.s = "ManualValue"
                                 THEN Manual(val, kind.state.protected)
                                 ELSE PlainTotp(kind.state.issuer, val)
                           b == builder_set_value(version, kind.builder, pv)
                       IN  IF b = Panic THEN Panicked(S)
                           ELSE LET r == app_set_field(S, kind.field_idx, b, env.now)
                                IN  IF r.t = "Panic" THEN r.s
                                    ELSE IF r.t = "Ok" THEN Sel(r.s, Main)
                                    ELSE Sel(r.s, PopUp("Error: Couldn't set field"))
             ELSE decrypt_prompt(S, val, kind.return_to_main, kind.redo, env.g)
        ELSE IF ev.key = "Char"
        THEN LET S1 == [S EXCEPT !.selected.value = Append(val, ev.c)]
             IN  IF is_search
                 THEN update_displayed_entry(
                         set_filter(S1, Some(Append(val, ev.c)), env.order))
                 ELSE S1
        ELSE IF ev = KeyEsc
        THEN IF kind.k = "Search"
             THEN LET S1 == set_filter(S, kind.previous, env.order)
                  IN  Back([S1 EXCEPT !.displayed_entry_idx =
                                         sidebar_selected_entry(S1)],
                           kind.return_to_main)
             ELSE IF kind.k \in {"Command", "Decrypt"}
             THEN Back(S, kind.return_to_main)
             ELSE Sel(S, Main)
        ELSE S

\* App::handle for a key event
handle(S0, ev, env) ==
    LET popup == S0.selected.t = "PopUp"
        S == IF popup THEN Sel(S0, Main) ELSE S0
    IN  IF popup /\ ev = Enter THEN S
        ELSE IF S.selected.t = "Main"
        THEN IF Cmd(ev) # "Err"
             THEN handle_main_cmd(S, Cmd(ev), env)
             ELSE handle_main_event(S, ev, env)
        ELSE IF S.selected.t = "Entries"
        THEN IF Cmd(ev) # "Err"
             THEN handle_entries_cmd(S, Cmd(ev), env)
             ELSE S
        ELSE handle_bottom(S, ev, env)

\* ui::draw: render_entries looks up every listed entry and stores the
\* height of a non-empty list, render_cmd and render_main look at the prompt
\* and at the displayed entry
draw(S, rows) ==
    LET list == IF S.filter = None THEN <<>> ELSE Unwrap(S.filter)
        start_row == IF S.selected.t = "Entries" THEN S.start_entries_row ELSE 0
        listed == IF S.filter = None THEN SatSub(Len(S.inner), start_row)
                  ELSE Len(list)
    IN  IF \/ \E i \in 1..Len(list) : ~InRange(S, list[i])
           \/ /\ S.selected.t = "BottomCommand"
              /\ S.selected.kind.k = "ModifyEntryMeta"
              /\ S.main_selected.t \in {"Field", "Plus"}
           \/ S.displayed_entry_idx # None /\ ~HasDisplayed(S)
        THEN Panicked(S)
        ELSE IF listed = 0 \/ rows < 2 THEN S
        ELSE [S EXCEPT !.last_entries_height = rows - 2]

\* version::parse: the warning for a file of an outdated format
parse_warning(ver) ==
    ver # "v0.4"

\* App::new, before anything is drawn
App_new(ver) ==
    [selected |-> IF parse_warning(ver)
                  THEN PopUp("Warning: old file format") ELSE Entries,
     filter |-> None, search_term |-> None,
     start_entries_row |-> 0, selected_entries_row |-> 0,
     last_entries_height |-> 0,
     main_selected |-> Name, displayed_entry_idx |-> None]

\* the entries of the file the application is started on
AppEntries(ver) ==
    <<[name |-> "Bank", tags |-> <<"work">>,
       fields |-> <<[name |-> "user", value |-> Basic(<<115>>)],
                    [name |-> "pin",
                     value |-> Protected(FileEncrypt(ver, <<115>>, FieldRng))]>>,
       first_added |-> 0, last_update |-> 0],
      [name |-> "Mail", tags |-> <<>>,
       fields |-> IF ver = "v0.4"
                  THEN <<[name |-> "otp",
                          value |-> Totp("acme", FileEncrypt(ver, <<65>>, FieldRng))]>>
                  ELSE <<>>,
       first_added |-> 0, last_update |-> 0]>>

\* the App fields of a handler's result
AppOf(S, rows, exited) ==
    [selected |-> S.selected, filter |-> S.filter, search_term |-> S.search_term,
     start_entries_row |-> S.start_entries_row,
     selected_entries_row |-> S.selected_entries_row,
     last_entries_height |-> S.last_entries_height,
     main_selected |-> S.main_selected,
     displayed_entry_idx |-> S.displayed_entry_idx,
     rows |-> rows, exited |-> exited]

\* run: parse the file, App::new, the first draw
AppInit ==
    /\ version \in Versions
    /\ token \in FileTokens(version)
    /\ iv = FileIv
    /\ salt = FileSalt
    /\ last_update = 0
    /\ inner = IF token = Corrupt THEN <<>> ELSE AppEntries(version)
    /\ key = Keyed_new.key
    /\ unsaved = Keyed_new.unsaved
    /\ clock = 1
    /\ res = NoRes
    /\ panicked = FALSE
    /\ ops = 0
    /\ cx = CodecIdle
    /\ \E rows \in TermRows :
          app = AppOf(draw(App_new(version) @@
                           [inner |-> inner, last_update |-> 0, key |-> None,
                            unsaved |-> FALSE, panic |-> FALSE,
                            overflow |-> {}, cont |-> TRUE, calls |-> <<>>],
                           rows),
                      rows, FALSE)

\* the keys pressed at a prompt: Enter, Esc and, where text is typed, a
\* Backspace or a character that continues one of the user's words
PromptKeys(user) ==
    LET kind == app.selected.kind
        words == IF kind.k = "Search" THEN user.terms
                 ELSE IF kind.k = "Command" THEN user.cmds
                 ELSE IF kind.k = "Decrypt" THEN user.pwds
                 ELSE {}
    IN  {Enter, KeyEsc} \cup
        (IF kind.k \in {"ModifyEntryMeta", "ModifyField"} THEN {}
         ELSE {KeyBackspace} \cup
              {KeyChar(p[Len(p)]) :
                  p \in {q \in Prefixes(words) :
                            /\ Len(q) = Len(app.selected.value) + 1
                            /\ SubSeq(q, 1, Len(q) - 1) = app.selected.value}})

\* the term set_filter is called with when the key is handled
NewTerm(ev) ==
    IF app.selected.t # "BottomCommand" \/ app.selected.kind.k # "Search"
    THEN None
    ELSE IF ev = KeyBackspace THEN Some(Pop(app.selected.value))
    ELSE IF ev = Enter THEN Some(app.selected.value)
    ELSE IF ev = KeyEsc THEN app.selected.kind.previous
    ELSE Some(Append(app.selected.value, ev.c))

\* the answers of the cipher when the key makes set_key decrypt the token
KeyGarbage(ev) ==
    IF /\ app.selected.t = "BottomCommand"
       /\ app.selected.kind.k = "Decrypt"
       /\ ev = Enter
    THEN GarbageFor(token, iv,
                    HashKey(version, salt, PwdOf(app.selected.value)))
    ELSE {[t |-> "Err"]}

\* the answers of the cipher when the key makes the selected field decrypt
SelectedGarbage ==
    IF /\ app.selected.t \in {"Main", "PopUp"}
       /\ app.displayed_entry_idx # None
       /\ Unwrap(app.displayed_entry_idx) < Len(inner)
       /\ app.main_selected.t = "Field"
       /\ app.main_selected.idx
             < Len(inner[Unwrap(app.displayed_entry_idx) + 1].fields)
    THEN FieldGarbage(inner[Unwrap(app.displayed_entry_idx) + 1]
                         .fields[app.main_selected.idx + 1].value, iv, key)
    ELSE {[t |-> "Err"]}

\* whether the key makes App::write touch the file
Writes(ev) ==
    /\ app.selected.t = "BottomCommand"
    /\ app.selected.kind.k = "Command"
    /\ ev = Enter
    /\ app.selected.value \in {Chars("w"), Chars("wq")}

\* what one turn did: the calls made on the store, whether handle returned
\* true, whether the file operations succeeded, the indices App::handle
\* left behind for ui::draw, and whether a subtraction on usize went below 0
Handled(S1, S2, io) ==
    [calls |-> S2.calls, cont |-> S2.cont, io |-> io,
     filter |-> S1.filter, displayed_entry_idx |-> S1.displayed_entry_idx,
     num_entries |-> Len(S1.inner), overflow |-> S1.overflow]

\* one turn of run's loop: handle the event, leave the loop or draw
Turn(ev) ==
    /\ ~panicked
    /\ ~app.exited
    /\ \E io \in (IF Writes(ev) THEN BOOLEAN ELSE {TRUE}),
          g \in KeyGarbage(ev), fg \in SelectedGarbage :
       \E order \in (IF NewTerm(ev) = None THEN {<<>>}
                     ELSE Orders(inner, Unwrap(NewTerm(ev)))) :
       \E S1 \in {handle(AppState, ev,
                         [now |-> clock, io |-> io, g |-> g, fg |-> fg,
                          order |-> order])} :
       \E S2 \in {IF S1.panic \/ ~S1.cont THEN S1 ELSE draw(S1, app.rows)} :
          /\ ops + Len(S2.calls) <= MaxOps
          /\ Len(S2.inner) <= MaxEntries
          /\ \A e \in 1..Len(S2.inner) : Len(S2.inner[e].fields) <= MaxFields
          /\ S2.main_selected.t = "Field" => S2.main_selected.idx <= MaxFields
          /\ \/ /\ S2.panic \/ S2.overflow # {}
                /\ panicked' = TRUE
                /\ res' = R("handle", "Panic", 0, 0, ev, Handled(S1, S2, io))
                /\ UNCHANGED <<content, key, unsaved, clock, ops, cx, app>>
             \/ /\ ~S2.panic
                /\ inner' = S2.inner
                /\ last_update' = S2.last_update
                /\ key' = S2.key
                /\ unsaved' = S2.unsaved
                /\ app' = AppOf(S2, app.rows, ~S2.cont)
                /\ ops' = ops + Len(S2.calls)
                /\ res' = R("handle", "Ok", 0, 0, ev, Handled(S1, S2, io))
                /\ UNCHANGED <<version, token, iv, salt, clock, panicked, cx>>

\* a key while a pop-up is shown
KeyAtPopUp(user) ==
    /\ app.selected.t = "PopUp"
    /\ \E ev \in user.keys : Turn(ev)

\* a key in the view of one entry
KeyInMain(user) ==
    /\ app.selected.t = "Main"
    /\ \E ev \in user.keys : Turn(ev)

\* a key in the list of entries
KeyInEntries(user) ==
    /\ app.selected.t = "Entries"
    /\ \E ev \in user.keys : Turn(ev)

\* a key at a prompt of the bottom bar
KeyAtPrompt(user) ==
    /\ app.selected.t = "BottomCommand"
    /\ \E ev \in PromptKeys(user) : Turn(ev)

\* a user who changes or adds an entry, saves and quits
Saver ==
    [keys |-> {KeyChar(c) : c \in {"h", ":", "q", "\n"}},
     cmds |-> {"q", "q!", "w", "wq", "new", "x"}, pwds |-> {}, terms |-> {}]

SaveNext ==
    \/ KeyAtPopUp(Saver)
    \/ KeyInMain(Saver)
    \/ KeyInEntries(Saver)
    \/ KeyAtPrompt(Saver)

SpecSave ==
    AppInit /\ [][SaveNext]_vars

\* a user who unlocks the file, with the password or another text
Unlocker ==
    [keys |-> {KeyChar(c) : c \in {":", "j"}},
     cmds |-> {"unlock", "unlock!"}, pwds |-> {"pw1", "no"}, terms |-> {}]

UnlockNext ==
    \/ KeyAtPopUp(Unlocker)
    \/ KeyInMain(Unlocker)
    \/ KeyInEntries(Unlocker)
    \/ KeyAtPrompt(Unlocker)

SpecUnlock ==
    AppInit /\ [][UnlockNext]_vars

\* a user who unlocks the file and edits the fields of its entries
Editor ==
    [keys |-> {KeyChar(c) : c \in {"h", "j", ":", "\n", "s", "+", "t"}},
     cmds |-> {"unlock"}, pwds |-> {"pw1"}, terms |-> {}]

EditNext ==
    \/ KeyAtPopUp(Editor)
    \/ KeyInMain(Editor)
    \/ KeyInEntries(Editor)
    \/ KeyAtPrompt(Editor)

\* the files the editor opens
EditInit ==
    AppInit /\ token # Corrupt /\ app.rows = 4

SpecEdit ==
    EditInit /\ [][EditNext]_vars

\* a user who moves through the entries and their fields, and deletes
Browser ==
    [keys |-> {KeyChar(c) : c \in {"h", "j", "k", "l", ":", "\n", "d"}}
                 \cup {KeyCtrl("e"), KeyCtrl("y")},
     cmds |-> {"delete"}, pwds |-> {}, terms |-> {}]

BrowseNext ==
    \/ KeyAtPopUp(Browser)
    \/ KeyInMain(Browser)
    \/ KeyInEntries(Browser)
    \/ KeyAtPrompt(Browser)

\* the files the browser opens
BrowseInit ==
    AppInit /\ token # Corrupt /\ app.rows = 4

SpecBrowse ==
    BrowseInit /\ [][BrowseNext]_vars

\* a user who searches the entries, adds and deletes
Searcher ==
    [keys |-> {KeyChar(c) : c \in {"/", ":", "\n", "j"}},
     cmds |-> {"new", "delete"}, pwds |-> {}, terms |-> {"an", "z"}]

SearchNext ==
    \/ KeyAtPopUp(Searcher)
    \/ KeyInMain(Searcher)
    \/ KeyInEntries(Searcher)
    \/ KeyAtPrompt(Searcher)

\* the files the searcher opens
SearchInit ==
    AppInit /\ token # Corrupt /\ app.rows = 4

SpecSearch ==
    SearchInit /\ [][SearchNext]_vars

-----
(* Codec properties *)

\* C1: salted codec round trip.  Whenever a value v was encrypted with a salt
\* of length L in 17..32 and then decrypted under the same key and IV, the
\* result is exactly v; the first payload byte carries L - 17 in its low four
\* bits and the salt's own high four bits, and the decoder recovers L from it.
C1_RoundTrip ==
    (cx.pc = "decrypted" /\ cx.via = "with_salt" /\ cx.k = CodecKey) =>
        LET L == Len(cx.salt)
            first == cx.ct.v.data[1]
        IN  /\ cx.ct.t = "Ok"
            /\ BitAnd(first, 15) + 17 = L
            /\ first \div 16 = cx.salt[1] \div 16
            /\ Len(cx.ct.v.data) = L + Len(cx.val)
            /\ cx.out = [t |-> "Some", v |-> cx.val]

C1_Witness ==
    /\ cx.pc = "decrypted" /\ cx.via = "with_salt" /\ cx.k = CodecKey
    /\ cx.val = <<>>
    /\ Len(cx.salt) = 32
    /\ cx.salt[1] = 255
    /\ cx.out = [t |-> "Some", v |-> <<>>]

\* C2: ciphertext floor.  For every plaintext length n the salt length chosen
\* by encrypt lies in max(17, 32 - n)..32, so salt and value together are at
\* least 32 bytes, and the length assertion of encrypt_with_salt holds.
C2_Floor ==
    (cx.pc = "encrypted" /\ cx.via = "rng") =>
        LET n == Len(cx.val)
            L == Len(cx.salt)
        IN  /\ cx.ct.t = "Ok"
            /\ Max(17, 32 - n) <= L /\ L <= 32
            /\ L + n >= 32
            /\ Len(cx.ct.v.data) >= 32

C2_Witness ==
    /\ cx.pc = "encrypted" /\ cx.via = "rng"
    /\ Len(cx.val) >= 32
    /\ Len(cx.salt) = 17
    /\ cx.ct.t = "Ok"

\* C3: decrypt never aborts: for every ciphertext, IV and key it returns a
\* plaintext or a failure.
C3_NeverPanics ==
    cx.pc = "decrypted" => cx.out.t \in {"Some", "None"}

-----------------------------------------------------------------------------
(* Keyed container properties *)

\* the stored token decrypts to ENCRYPT_TOKEN under the key derived from pwd
TokenOpens(pwd) ==
    LET d == Decrypt(version, token, iv, HashKey(version, salt, pwd), [t |-> "Err"])
    IN  d.t = "Some" /\ d.v = ENCRYPT_TOKEN

\* C4: set_key(password) returns Ok and stores the derived key exactly when
\* the stored token decrypts, under the key derived from that password, to the
\* token constant; in every other case it returns BadCrypt.
C4_SetKeyIff ==
    res.op = "set_key" =>
        IF TokenOpens(res.arg)
        THEN res.r = "Ok" /\ key = Some(HashKey(version, salt, res.arg))
        ELSE res.r = "BadCrypt"

\* the key held by the container, if any, decrypts the token to ENCRYPT_TOKEN
KeyOpensToken ==
    key # None =>
        LET d == Decrypt(version, token, iv, Unwrap(key), [t |-> "Err"])
        IN  d.t = "Some" /\ d.v = ENCRYPT_TOKEN

\* C5: once a key is set it stays set and is the key that opens the token; a
\* set_key that returns BadCrypt alters neither the key, nor the content, nor
\* the unsaved flag, so an unlocked store stays unlocked and a locked store
\* stays locked.
C5_StaysUnlocked ==
    /\ []KeyOpensToken
    /\ [][/\ key # None => key' = key
          /\ (res'.op = "set_key" /\ res'.r = "BadCrypt") =>
                /\ key' = key
                /\ content' = content
                /\ unsaved' = unsaved]_vars

C5_Witness ==
    /\ res.op = "set_key"
    /\ res.r = "BadCrypt"
    /\ key # None
    /\ unsaved
    /\ Len(inner) > 0

\* C6: while no key is set, value() and plaintext_value() of a Protected or
\* Totp field return ContentsNotUnlocked; on a Basic field they return the
\* stored string whether or not a key is set.
C6_LockedHidesProtected ==
    res.op \in {"value", "plaintext_value"} =>
        LET v == inner[res.e + 1].fields[res.f + 1].value
        IN  /\ v.kind = "Basic" =>
                 /\ res.r = "Ok"
                 /\ res.out = IF res.op = "value" THEN v.s ELSE Manual(v.s, FALSE)
            /\ (v.kind \in {"Protected", "Totp"} /\ key = None) =>
                 res.r = "ContentsNotUnlocked"

C6_Witness ==
    /\ res.op = "value"
    /\ key = None
    /\ inner[res.e + 1].fields[res.f + 1].value.kind = "Totp"
    /\ res.r = "ContentsNotUnlocked"

-----------------------------------------------------------------------------
(* Accessor layer properties *)

MutatingOps ==
    {"set_name", "set_tags", "set_field", "remove_field", "swap_encryption"}

\* the entry and the store carry the same instant, not before t0, and the
\* store is marked unsaved
Stamped(t0, entry, global, flag) ==
    /\ entry.last_update >= t0
    /\ global >= t0
    /\ entry.last_update = global
    /\ flag = TRUE

\* C7 as stated: given an entry with last_update = t0, every EntryMut or
\* FieldMut operation (set_name, set_tags, set_field, remove_field,
\* swap_encryption) that returns sets the entry's and the store's last_update
\* to one instant >= t0 and sets the unsaved flag.
C7_EveryOperationStamps ==
    [][(res'.op \in MutatingOps /\ res'.r # "Panic") =>
          Stamped(inner[res'.e + 1].last_update, inner'[res'.e + 1],
                  last_update', unsaved')]_vars

\* C7 amended: every EntryMut or FieldMut operation that returns Ok sets the
\* entry's and the store's last_update to one instant >= t0 and sets the
\* unsaved flag.
C7_SuccessfulOperationStamps ==
    [][(res'.op \in MutatingOps /\ res'.r = "Ok") =>
          Stamped(inner[res'.e + 1].last_update, inner'[res'.e + 1],
                  last_update', unsaved')]_vars

C7_Witness ==
    /\ res.op = "swap_encryption"
    /\ res.r = "Ok"
    /\ inner[res.e + 1].first_added = 0
    /\ inner[res.e + 1].last_update = 1
    /\ last_update = 1
    /\ unsaved

\* C8: a successful set_field(idx, builder) with idx equal to the field count
\* appends the new field; with idx below the count it replaces the field at
\* idx and the count is unchanged; every other field of the entry and every
\* other entry keep their name, value and position.
C8_SetFieldFrame ==
    [][(res'.op = "set_field" /\ res'.r = "Ok") =>
          LET e == res'.e + 1
              idx == res'.f
              old == inner[e].fields
              new == inner'[e].fields
          IN  /\ Len(inner') = Len(inner)
              /\ \A j \in 1..Len(inner) : j # e => inner'[j] = inner[j]
              /\ inner'[e].name = inner[e].name
              /\ inner'[e].tags = inner[e].tags
              /\ new[idx + 1].name = Unwrap(res'.arg.name)
              /\ idx = Len(old) =>
                    /\ Len(new) = Len(old) + 1
                    /\ \A j \in 1..Len(old) : new[j] = old[j]
              /\ idx < Len(old) =>
                    /\ Len(new) = Len(old)
                    /\ \A j \in 1..Len(old) : j # idx + 1 => new[j] = old[j]]_vars

C8_Witness ==
    /\ res.op = "set_field"
    /\ res.r = "Ok"
    /\ Len(inner) = 2
    /\ res.e = 0
    /\ res.f = 0
    /\ Len(inner[1].fields) = 2
    /\ inner[1].fields[2].name = "pin"

\* C9: in every format version, on an unlocked store, set_field with
\* Manual{value, protected: true} stores a Protected field and with
\* protected: false stores a Basic field holding the value; afterwards
\* plaintext_value() returns Manual with the same value and protected flag.
C9_SetFieldKind ==
    (/\ res.op = "set_field"
     /\ res.r = "Ok"
     /\ Unwrap(res.arg.value).kind = "Manual"
     /\ key # None) =>
        LET pv == Unwrap(res.arg.value)
            v == inner[res.e + 1].fields[res.f + 1].value
        IN  /\ pv.protected => v.kind = "Protected"
            /\ ~pv.protected => v = Basic(pv.value)
            /\ plaintext_value_of(version, v, key, iv, [t |-> "Err"])
                  = [t |-> "Ok", v |-> Manual(pv.value, pv.protected)]

\* the plaintext a stored Basic or Protected value stands for under the key
PlainOf(v) ==
    IF v.kind = "Basic" THEN [t |-> "Ok", v |-> v.s]
    ELSE DecryptString(version, v.bs, iv, Unwrap(key), [t |-> "Err"])

\* C10: on an unlocked store a successful swap_encryption turns Basic(s) into
\* Protected with a ciphertext that decrypts to s, and Protected into Basic
\* holding the decrypted plaintext; the field's name is unchanged; applying
\* swap_encryption again restores the original kind and the same plaintext.
C10_SwapToggles ==
    [][(res'.op = "swap_encryption" /\ res'.r = "Ok") =>
          LET old == inner[res'.e + 1].fields[res'.f + 1]
              new == inner'[res'.e + 1].fields[res'.f + 1]
          IN  /\ key # None
              /\ new.name = old.name
              /\ old.value.kind \in {"Basic", "Protected"}
              /\ old.value.kind = "Basic" =>
                    /\ new.value.kind = "Protected"
                    /\ PlainOf(new.value) = [t |-> "Ok", v |-> old.value.s]
              /\ old.value.kind = "Protected" =>
                    /\ new.value.kind = "Basic"
                    /\ old.value.bs.key = Unwrap(key) =>
                          PlainOf(old.value) = [t |-> "Ok", v |-> new.value.s]
              /\ \A rng \in SwapRng(new.value, key),
                    g \in FieldGarbage(new.value, iv, key) :
                    LET twice == swap_encryption_value(version, new.value, key,
                                                       iv, rng, g)
                    IN  /\ twice.t = "Ok"
                        /\ twice.v.kind = old.value.kind
                        /\ PlainOf(twice.v) = PlainOf(new.value)]_vars

C10_Witness ==
    /\ res.op = "swap_encryption"
    /\ res.r = "Ok"
    /\ key # None
    /\ res.f = 1
    /\ inner[res.e + 1].fields[2] = [name |-> "pin", value |-> Basic(<<115>>)]

\* C11: swap_encryption returns ContentsNotUnlocked whenever no key is set
\* and IsTotp on a Totp field of an unlocked store; a swap_encryption that
\* returns an error (these two, or a decryption error of the stored
\* ciphertext) leaves the store's content (every field value and kind, the
\* entry's and the store's last_update) and the unsaved flag as they were.
C11_SwapFailureFrame ==
    [][res'.op = "swap_encryption" =>
          LET old == inner[res'.e + 1].fields[res'.f + 1]
          IN  /\ key = None => res'.r = "ContentsNotUnlocked"
              /\ (key # None /\ old.value.kind = "Totp") => res'.r = "IsTotp"
              /\ res'.r \in {"ContentsNotUnlocked", "IsTotp", "BadCrypt", "BadUtf8"}
                    => UNCHANGED <<content, unsaved, key>>]_vars

\* a locked store refused to swap a Totp field, and a store with unsaved
\* changes stays so
C11_Witness ==
    /\ res.op = "swap_encryption"
    /\ res.r = "ContentsNotUnlocked"
    /\ key = None
    /\ inner[res.e + 1].fields[res.f + 1].value.kind = "Totp"
    /\ unsaved

\* C12: while the store is locked, set_field with a builder holding a
\* protected Manual value or a Totp value returns ContentsNotUnlocked and
\* leaves the store's content (field lists, the entry's and the store's
\* last_update) and the unsaved flag unchanged, and set_field with an
\* unprotected Manual value returns Ok.
C12_LockedSetField ==
    [][(/\ res'.op = "set_field"
        /\ key = None
        /\ res'.arg.name # None
        /\ res'.arg.value # None) =>
          LET pv == Unwrap(res'.arg.value)
          IN  /\ (pv.kind = "Totp" \/ (pv.kind = "Manual" /\ pv.protected)) =>
                    /\ res'.r = "ContentsNotUnlocked"
                    /\ UNCHANGED <<content, unsaved>>
              /\ (pv.kind = "Manual" /\ ~pv.protected) => res'.r = "Ok"]_vars

\* C13: make_totp returns Err(UnsupportedFeature::Totp) on the v0.2 and v0.3
\* formats and Ok on v0.4, and no sequence of calls on a v0.2 or v0.3 store
\* produces a field whose kind is Totp.
C13_TotpOnlyInV04 ==
    /\ res.op = "make_totp" =>
          (res.r = "Ok" <=> version = "v0.4") /\
          (res.r = "UnsupportedFeature::Totp" <=> version \in {"v0.2", "v0.3"})
    /\ version \in {"v0.2", "v0.3"} =>
          \A e \in 1..Len(inner) : \A f \in 1..Len(inner[e].fields) :
             inner[e].fields[f].value.kind # "Totp"

\* a v0.3 store that took a new field refuses make_totp
C13_Witness ==
    /\ version = "v0.3"
    /\ res.op = "make_totp"
    /\ res.r = "UnsupportedFeature::Totp"
    /\ unsaved
    /\ Len(inner) = 1
    /\ Len(inner[1].fields) = 2

\* the calls of FieldBuilder, EntryMut and FieldMut
AccessorOps ==
    {"make_totp", "set_value", "set_name", "set_tags", "set_field",
     "remove_field", "swap_encryption"}

\* C14: with in-range indices no FieldBuilder, EntryMut or FieldMut call
\* aborts: set_value with a Totp value on a builder of a format without
\* TOTP support and set_field with a builder that lacks a name or a value
\* return instead of panicking.
C14_AccessorsNeverPanic ==
    res.op \in AccessorOps => res.r # "Panic"

\* the decrypted secret of the stored Totp field
TotpSecretOf(field) ==
    decrypt_string(field.value.secret, iv, Unwrap(key), [t |-> "Err"]).v

\* C15: at every Unix time t, value() on a Totp field of an unlocked store
\* computes the code for time slice t \div 30 and reports 30 - (t % 30)
\* seconds remaining, which lies in 1..30 and ends on a slice boundary
\* ((t + remaining) % 30 = 0); a stored secret that is not valid yields
\* BadTotpSecret.
C15_TotpSlice ==
    res.op = "value" =>
        LET t == clock
            secret == TotpSecretOf(inner[1].fields[1])
        IN  IF get_code(secret, 0).t = "Ok"
            THEN /\ res.r = "Ok"
                 /\ res.out[1] = get_code(secret, t \div 30).v
                 /\ res.out[2] = 30 - (t % 30)
                 /\ res.out[2] \in 1..30
                 /\ (t + res.out[2]) % 30 = 0
            ELSE res.r = "BadTotpSecret"

\* a code requested exactly on a slice boundary has 30 seconds left
C15_Witness ==
    /\ res.op = "value"
    /\ res.r = "Ok"
    /\ clock = 60
    /\ res.out[2] = 30

\* C16: to_current on a v0.4 store with a password that opens the token
\* returns the same store (version tag, token, iv, salt, last_update and
\* entries with their ciphertexts unchanged), and to_current on the result
\* with that password returns the same content again; with any other
\* password it returns a DecryptError and no store.
C16_CurrentIsIdentity ==
    [][(res'.op = "to_current" /\ version = "v0.4") =>
          LET pwd == res'.arg.pwd
          IN  IF TokenOpens(pwd)
              THEN /\ res'.r = "Ok"
                   /\ content' = content
                   /\ LET again == to_current_v04(ThisContent', key', unsaved',
                                                  pwd, [t |-> "Err"])
                      IN  again.r = "Ok" /\ again.content = ThisContent
              ELSE /\ res'.r = "BadCrypt"
                   /\ ~HasStore']_vars

\* C17 as stated: a successful to_current from v0.2 or v0.3 never carries
\* over the source store's iv, salt, token ciphertext or any ciphertext of
\* a field.
C17_MigrationRederives ==
    [][(res'.op = "to_current" /\ res'.r = "Ok" /\ version \in {"v0.2", "v0.3"}) =>
          /\ iv' # iv
          /\ salt' # salt
          /\ token' # token
          /\ ProtectedOf(inner') \cap ProtectedOf(inner) = {}]_vars

\* C17: a successful to_current from v0.2 draws a new iv and a new salt and
\* encrypts the token and every Protected value again, so none of the
\* source's iv, salt, token and field ciphertexts is carried over; a
\* successful to_current from v0.3 keeps the source's iv, salt, token and
\* field values as they are under the v0.4 tag.
C17_OnlyV02Rederives ==
    [][(res'.op = "to_current" /\ res'.r = "Ok") =>
          /\ version = "v0.2" =>
                /\ iv' # iv
                /\ salt' # salt
                /\ token' # token
                /\ ProtectedOf(inner') \cap ProtectedOf(inner) = {}
                /\ \A ct \in ProtectedOf(inner') \cup {token'} :
                      ct.iv = iv' /\ ct.key = hash_key(salt', res'.arg.pwd)
          /\ version = "v0.3" =>
                /\ version' = "v0.4"
                /\ <<token', iv', salt', last_update'>>
                      = <<token, iv, salt, last_update>>
                /\ \A e \in 1..Len(inner) : inner'[e].fields = inner[e].fields]_vars

\* a v0.2 store with a Protected field was migrated
C17_Witness ==
    /\ res.op = "to_current"
    /\ res.r = "Ok"
    /\ iv = "iv2"
    /\ salt = "salt2"
    /\ Len(inner) = 2
    /\ ProtectedOf(inner) # {}

\* the plaintext a stored Basic or Protected value stands for under (k, i)
PlainUnder(ver, v, i, k, g) ==
    IF v.kind = "Basic" THEN [t |-> "Ok", v |-> v.s]
    ELSE DecryptString(ver, v.bs, i, k, g)

\* C18: for a v0.2 or v0.3 store and a password that opens its token, the
\* store returned by to_current has the same store-level last_update and the
\* same entries in the same order, each with the same name, tags,
\* first_added and last_update and the same fields in the same order, each
\* with the same name, the same kind and, under the key that password
\* unlocks the new store with, the same plaintext.
C18_MigrationPreserves ==
    [][(/\ res'.op = "to_current"
        /\ res'.r = "Ok"
        /\ version \in {"v0.2", "v0.3"}
        /\ TokenOpens(res'.arg.pwd)) =>
          LET pwd == res'.arg.pwd
              old_key == HashKey(version, salt, pwd)
              new_key == HashKey(version', salt', pwd)
          IN  /\ Decrypt(version', token', iv', new_key, [t |-> "Err"])
                    = [t |-> "Some", v |-> ENCRYPT_TOKEN]
              /\ last_update' = last_update
              /\ Len(inner') = Len(inner)
              /\ \A e \in 1..Len(inner) :
                    /\ inner'[e].name = inner[e].name
                    /\ inner'[e].tags = inner[e].tags
                    /\ inner'[e].first_added = inner[e].first_added
                    /\ inner'[e].last_update = inner[e].last_update
                    /\ Len(inner'[e].fields) = Len(inner[e].fields)
                    /\ \A f \in 1..Len(inner[e].fields) :
                          LET old == inner[e].fields[f]
                              new == inner'[e].fields[f]
                          IN  /\ new.name = old.name
                              /\ new.value.kind = old.value.kind
                              /\ PlainUnder(version', new.value, iv', new_key,
                                            res'.arg.fg)
                                    = PlainUnder(version, old.value, iv, old_key,
                                                 res'.arg.fg)]_vars

\* a v0.2 store with a Basic and a Protected field came out of to_current
C18_Witness ==
    /\ res.op = "to_current"
    /\ res.r = "Ok"
    /\ res.arg.pwd = FilePwd
    /\ salt = "salt2"
    /\ Len(inner) = 2
    /\ inner[1].first_added = 0
    /\ inner[1].last_update = 1
    /\ inner[1].fields[1].value.kind = "Basic"
    /\ inner[1].fields[2].value.kind = "Protected"

\* C19: in every format version and whether or not the container was
\* unlocked before, to_current with a password that does not open the
\* token of the source store returns a DecryptError.
C19_ToCurrentValidates ==
    [][(res'.op = "to_current" /\ ~TokenOpens(res'.arg.pwd)) =>
          res'.r \in {"BadCrypt", "BadUtf8"}]_vars

\* C20: for every plaintext content c and password p, the store
\* from_plaintext(p, c) accepts set_key(p), rejects set_key(q) for every
\* password q deriving another key, and with the key of p its to_plaintext()
\* is c: the same store last_update and the same entries in order with the
\* same names, tags, timestamps and fields (names, values, protected
\* flags); make_new(p) is from_plaintext(p, c) for the content without
\* entries.
C20_PlaintextRoundTrip ==
    res.op \in {"from_plaintext", "make_new"} =>
        LET p == res.arg.pwd
            c == res.arg.content
            k == HashKey(version, salt, p)
        IN  /\ key = None
            /\ set_key_result(version, token, iv, salt, key, p, [t |-> "Err"])
                  = [r |-> "Ok", key |-> Some(k)]
            /\ \A q \in Passwords \ {p} :
                  \A g \in GarbageFor(token, iv, HashKey(version, salt, q)) :
                     set_key_result(version, token, iv, salt, key, q, g)
                        = [r |-> "BadCrypt", key |-> None]
            /\ to_plaintext_result(ThisContent, Some(k), [t |-> "Err"])
                  = [t |-> "Ok", v |-> c]
            /\ res.op = "make_new" => c.entries = <<>> /\ inner = <<>>

\* a content with a protected and an unprotected field was imported
C20_Witness ==
    /\ res.op = "from_plaintext"
    /\ Len(inner) = 1
    /\ inner[1].fields[1].value = Basic(<<115>>)
    /\ inner[1].fields[2].value.kind = "Protected"
    /\ res.arg.content.entries[1].fields[2].protected

\* the Value kind a PlaintextValue is stored as
KindBeingSet(pv) ==
    IF pv.kind = "Totp" THEN "Totp"
    ELSE IF pv.protected THEN "Protected" ELSE "Basic"

\* C30: the value kind carried by SetFieldError::ContentsNotUnlocked names
\* the kind of value that was being set, in every format version: Protected
\* when a protected Manual value was rejected, Totp when a Totp value was.
C30_ErrorKindNamesValue ==
    (res.op = "set_field" /\ res.r = "ContentsNotUnlocked") =>
        res.out = KindBeingSet(Unwrap(res.arg.value))

\* the first_added stamps of the entries, in order
FirstAdded(ents) ==
    [e \in 1..Len(ents) |-> ents[e].first_added]

\* the update, emit-plaintext and from-plaintext commands on a store that
\* the application has been editing
LifeNext ==
    \/ HasStore /\ Tick
    \/ HasStore /\ set_key
    \/ HasStore /\ add_empty_entry
    \/ HasStore /\ remove_entry
    \/ HasStore /\ set_name
    \/ HasStore /\ set_tags
    \/ HasStore /\ set_field
    \/ HasStore /\ remove_field
    \/ HasStore /\ swap_encryption
    \/ to_current
    \/ to_plaintext
    \/ from_plaintext

\* parse of a file with one entry, written with the file's password
LifeInit ==
    /\ Init
    /\ token # Corrupt
    /\ Len(inner) = 1
    /\ \A f \in 1..Len(inner[1].fields) :
          inner[1].fields[f].value.kind = "Protected" =>
             inner[1].fields[f].value.bs # Corrupt

SpecLife ==
    LifeInit /\ [][LifeNext]_vars

\* C22: an entry's first_added is immutable after creation. add_empty_entry
\* sets it once, equal to the entry's initial last_update; set_name,
\* set_tags, set_field, remove_field, swap_encryption, set_key and adding or
\* removing other entries leave the first_added of every remaining entry as
\* it was; a successful to_current returns a store with the same first_added
\* stamps, to_plaintext exports them and from_plaintext imports the stamps
\* of the plaintext content.
C22_FirstAddedImmutable ==
    [][IF res'.r # "Ok" THEN inner' = inner
       ELSE IF res'.op = "add_empty_entry"
       THEN /\ FirstAdded(inner') =
                  Append(FirstAdded(inner), inner'[Len(inner')].last_update)
            /\ inner'[Len(inner')].first_added = clock'
       ELSE IF res'.op = "remove_entry"
       THEN FirstAdded(inner') = Remove(FirstAdded(inner), res'.e)
       ELSE IF res'.op = "to_plaintext"
       THEN FirstAdded(res'.out.entries) = FirstAdded(inner)
       ELSE IF res'.op = "from_plaintext"
       THEN FirstAdded(inner') = FirstAdded(res'.arg.content.entries)
       ELSE FirstAdded(inner') = FirstAdded(inner)]_vars

\* an entry of the file was edited after the clock advanced and the store
\* was then migrated: the entry's last_update moved, its first_added did not
C22_Witness ==
    /\ res.op = "to_current"
    /\ res.r = "Ok"
    /\ Len(inner) > 0
    /\ inner[1].last_update = 1
    /\ inner[1].first_added = 0

\* C24: every store returned by a successful to_current(password), from
\* v0.2, v0.3 or v0.4, is unlocked with the key derived from that password,
\* so that to_plaintext() on it does not abort on a missing key.
C24_ToCurrentUnlocks ==
    (res.op = "to_current" /\ res.r = "Ok") =>
        /\ key = Some(HashKey(version, salt, res.arg.pwd))
        /\ to_plaintext_result(ThisContent, key, [t |-> "Err"]) # Panic

-----------------------------------------------------------------------------
(* Application properties *)

\* the store calls made while the last key was handled
Called(r, name) ==
    /\ r.op = "handle"
    /\ \E i \in 1..Len(r.out.calls) : r.out.calls[i] = name

\* C21: a failed App::write leaves unsaved() and the content as they were and
\* shows the error pop-up; mark_saved is called only after a write whose file
\* operations all succeeded, and after such a write unsaved() is false
C21_FailedSaveKeepsUnsaved ==
    [][ /\ (Called(res', "write") /\ res'.out.io) =>
             (/\ res'.out.calls = <<"write", "mark_saved">>
              /\ ~unsaved'
              /\ content' = content)
        /\ (Called(res', "write") /\ ~res'.out.io) =>
             (/\ res'.out.calls = <<"write">>
              /\ unsaved' = unsaved
              /\ content' = content
              /\ app'.selected = PopUp("Error: Failed to write to file")
              /\ ~app'.exited)
        /\ Called(res', "mark_saved") =>
             (Called(res', "write") /\ res'.out.io)
      ]_vars

\* a write failed while there were unsaved changes
C21_Witness ==
    /\ Called(res, "write")
    /\ ~res.out.io
    /\ unsaved
    /\ app.selected = PopUp("Error: Failed to write to file")

\* the key that is handled is Enter on the typed command
Entered(cmd) ==
    /\ app.selected.t = "BottomCommand"
    /\ app.selected.kind.k = "Command"
    /\ app.selected.value = Chars(cmd)
    /\ res'.arg = Enter

\* the key that is handled is 'q' outside the bottom bar
PressedQ ==
    /\ app.selected.t # "BottomCommand"
    /\ res'.arg = KeyChar("q")

\* C29: the event loop ends on 'q' and ':q' only when unsaved() is false
\* (otherwise the warning pop-up is shown and the loop goes on), on ':wq'
\* only after a successful write, and with unsaved changes only on ':q!'
C29_QuitOnlyWhenSaved ==
    [][ /\ (app'.exited /\ ~app.exited) =>
             (\/ Entered("q!")
              \/ (Entered("wq") /\ res'.out.io /\ ~unsaved')
              \/ ((Entered("q") \/ PressedQ) /\ ~unsaved /\ ~unsaved'))
        /\ (unsaved /\ (Entered("q") \/ PressedQ)) =>
             (/\ ~app'.exited
              /\ app'.selected = PopUp("Warning: There are unsaved changes"))
      ]_vars

\* 'q' was refused because of unsaved changes
C29_Witness ==
    /\ res.op = "handle"
    /\ res.arg = KeyChar("q")
    /\ unsaved
    /\ ~app.exited
    /\ app.selected = PopUp("Warning: There are unsaved changes")

\* the prompt in which the key is handled is a password prompt
AtDecryptPrompt ==
    /\ app.selected.t = "BottomCommand"
    /\ app.selected.kind.k = "Decrypt"

\* the number of set_key calls made while the key was handled
SetKeyCalls(r) ==
    Cardinality({i \in 1..Len(r.out.calls) : r.out.calls[i] = "set_key"})

\* C23: submitting a password prompt calls set_key at most once and closes
\* the prompt, to the previous view or to a pop-up; when the store is
\* decrypted and the prompt was not forced set_key is not called and the key
\* is kept; Esc at the prompt derives no key
C23_OneDerivationPerPrompt ==
    [][ /\ (AtDecryptPrompt /\ res'.arg = Enter) =>
              (/\ SetKeyCalls(res') <= 1
               /\ ~panicked'
               /\ app'.selected.t \in {"Main", "Entries", "PopUp"}
               /\ (app'.selected.t # "PopUp" =>
                      app'.selected = IF app.selected.kind.return_to_main
                                      THEN Main ELSE Entries)
               /\ ((key # None /\ ~app.selected.kind.redo) =>
                      (SetKeyCalls(res') = 0 /\ key' = key)))
        /\ (AtDecryptPrompt /\ res'.arg = KeyEsc) =>
              (/\ SetKeyCalls(res') = 0
               /\ key' = key
               /\ app'.selected = IF app.selected.kind.return_to_main
                                  THEN Main ELSE Entries)
      ]_vars

\* the prompt in which the key is handled edits a field
AtFieldPrompt ==
    /\ app.selected.t = "BottomCommand"
    /\ app.selected.kind.k = "ModifyField"

\* the kinds of the fields of every entry
FieldKinds(ents) ==
    [e \in 1..Len(ents) |->
        [f \in 1..Len(ents[e].fields) |-> ents[e].fields[f].value.kind]]

\* C25: Enter at any step of the prompt that edits an existing field leaves
\* the kind of every field as it was (Basic, Protected or Totp), in every
\* format version; Esc at any step of the prompt leaves the entries, the
\* timestamps and the unsaved flag unchanged
C25_EditKeepsKind ==
    [][ /\ (AtFieldPrompt /\ app.selected.kind.old_value # None
               /\ res'.arg = Enter) =>
              FieldKinds(inner') = FieldKinds(inner)
        /\ (AtFieldPrompt /\ res'.arg = KeyEsc) =>
              (/\ inner' = inner
               /\ last_update' = last_update
               /\ unsaved' = unsaved
               /\ app'.selected = Main)
      ]_vars

\* the filter the deletion of entry d should leave: without d, and with the
\* indices after d moved down with their entries
FilterWithout(list, d) ==
    LET pos == {i \in 1..Len(list) : list[i] = d}
        rest == IF pos = {} THEN list
                ELSE Remove(list, (CHOOSE i \in pos : \A j \in pos : i <= j) - 1)
    IN  [i \in 1..Len(rest) |-> IF rest[i] > d THEN rest[i] - 1 ELSE rest[i]]

\* C26: after every key, each index App::handle leaves in the filter and in
\* displayed_entry_idx is smaller than num_entries(), and the indices of the
\* filter still designate their entries after another entry was deleted
C26_IndicesStayValid ==
    [][res'.op = "handle" =>
          (/\ (res'.out.filter # None =>
                  \A i \in 1..Len(Unwrap(res'.out.filter)) :
                      Unwrap(res'.out.filter)[i] < res'.out.num_entries)
           /\ (res'.out.displayed_entry_idx # None =>
                  Unwrap(res'.out.displayed_entry_idx) < res'.out.num_entries)
           /\ ((Called(res', "remove_entry") /\ app.filter # None) =>
                  res'.out.filter =
                     Some(FilterWithout(Unwrap(app.filter),
                                        Unwrap(app.displayed_entry_idx)))))
      ]_vars

\* the number of fields of the displayed entry
DisplayedFields ==
    Len(inner[Unwrap(app.displayed_entry_idx) + 1].fields)

\* C27: whenever the main view is active on an entry with main_selected =
\* Field{idx}, idx is smaller than the number of fields of the displayed
\* entry, and no key makes 'num_fields() - 1' underflow
C27_FieldIndexInRange ==
    /\ (/\ app.selected.t = "Main"
        /\ app.displayed_entry_idx # None
        /\ Unwrap(app.displayed_entry_idx) < Len(inner)
        /\ app.main_selected.t = "Field") =>
           app.main_selected.idx < DisplayedFields
    /\ (res.op = "handle" => "num_fields" \notin res.out.overflow)

\* the listed items: the filter, or all entries when there is no filter
ListedItems ==
    IF app.filter # None THEN Len(Unwrap(app.filter)) ELSE Len(inner)

\* C28: no key makes a subtraction on the rows or on the height of the
\* sidebar underflow, and whenever items are listed start_entries_row +
\* selected_entries_row is smaller than their number
C28_CursorInRange ==
    /\ (res.op = "handle" =>
           res.out.overflow \cap {"last_height", "selected_entries_row"} = {})
    /\ (ListedItems > 0 =>
           app.start_entries_row + app.selected_entries_row < ListedItems)

====
